---- MODULE Spec2Model ----
(***************************************************************************)
(* Model of the session monitor: the permission policy                     *)
(* (session/permissions.rs), the status inference (session/status.rs),     *)
(* the enrichment pipeline and the poll/notify loop (polling.rs).          *)
(*                                                                         *)
(* Strings that the code inspects character by character (shell commands,  *)
(* allow-pattern prefixes) are sequences of one-character strings.         *)
(* Timestamps of log entries are held as their age at the moment of the    *)
(* check: [valid |-> FALSE] is a timestamp that does not parse as RFC 3339,*)
(* age is now - timestamp in whole seconds.                                *)
(* Instants of the loop are held as the milliseconds elapsed since they    *)
(* were taken, saturating at notification_cooldown: the code only ever     *)
(* compares elapsed() with the cooldown.                                   *)
(***************************************************************************)
EXTENDS Integers, Sequences, FiniteSets, TLC

\* ------------------------------------------------------------------ bounds
\* Largest number of content blocks in a generated assistant turn.
MaxBlocks == 3
\* Number of messages the loop sends into a channel, and of WebSocket clients.
MaxSends == 17
MaxSubscribers == 1
\* Largest number of lines of the log the parser is shown.
MaxLines == 3
\* Number of session ids (log files) the environment of the loop can show.
NumSessions == 1
\* Largest number of claude processes and of log files the detector is shown.
MaxProcs == 2
MaxFiles == 2

\* ------------------------------------------------------- program constants
\* polling.rs:53  Duration::from_millis(3500)
poll_interval == 3500
\* polling.rs:72  Duration::from_secs(30), in milliseconds
notification_cooldown == 30 * 1000
\* status.rs:74,79  is_entry_recent(&base.timestamp, 30)
USER_RECENT_SECS == 30
\* status.rs:103,115  is_entry_recent(&base.timestamp, 20)
ASSISTANT_RECENT_SECS == 20
\* polling.rs:299  is_file_recently_modified(&session_file_path, 8)
FILE_RECENT_SECS == 8
\* detector.rs:224  session_modified_secs + 5 >= proc.start_time
GRACE_SECS == 5
\* lib.rs:260-261  capacity of the two broadcast channels
CHANNEL_CAPACITY == 16
\* parser.rs:231  a file below this size is read whole
SMALL_FILE_BYTES == 10000
\* parser.rs:245  bytes read from the end of a larger file for every line asked
CHUNK_BYTES_PER_LINE == 2048

VARIABLES
    \* status.rs:8  the once-initialised global permission checker
    PERMISSION_CHECKER,
    \* ---- inference harness (specification SpecStatus)
    window,            \* the slice of entries handed to determine_status
    inferred,          \* what the inference returned for it, or NoResult
    \* ---- permission harness (specification SpecPermission)
    settings_file,     \* the settings source the checker was loaded from
    tool_use,          \* the tool name and input handed to is_auto_approved
    approved,          \* what it answered, or NotAsked
    \* ---- enrichment harness (specification SpecEnrich)
    file_view,         \* what the filesystem shows of one detected session
    enriched,          \* what detect_and_enrich_sessions returned, or NotRun
    \* ---- detector harness (specification SpecDetect)
    claude_processes,  \* the claude processes, in the order they are listed
    log_files,         \* the logs of the project directories, in read order
    found,             \* what find_active_sessions returned, or NotRun
    \* ---- conversation lookup harness (specification SpecLookup)
    filesystem,        \* the home directory, the project directories and the files
    requested_id,      \* the session id handed to get_conversation_data
    conversation,      \* what the lookup returned and what it opened, or NotLooked
    \* ---- parser harness (specification SpecParse)
    log_file,          \* a log: whether it can be opened, and its lines
    tail_n,            \* the number of entries asked of the tail parse
    parsed,            \* what the full and the tail parse returned, or NotParsed
    \* ---- broadcast harness (specification SpecBroadcast)
    channel,           \* a broadcast channel of lib.rs:260-261 and its sender
    subscribers,       \* the tasks of handle_socket and their receivers
    \* ---- on-demand detections beside the loop (specification SpecMonitor)
    on_demand,         \* the command that last ran an on-demand detection
    polled,            \* what the loop's last successful detection was shown
    \* ---- path matching harness (specification SpecMatch)
    candidate,         \* a process working directory and a log's project directory
    matched,           \* what path_matches answered for them, or NotMatched
    \* ---- the loop over logs that fail to open (specification SpecDegrade)
    disk,              \* what lay on disk for each session in the last cycle
    \* ---- the loop with its held-back notifications (specification SpecDebounce)
    held_back,         \* the ids whose notification the cooldown has held back
    \* ---- poll loop (polling.rs:46-180)
    pc,                \* position of the polling thread
    is_first_cycle,    \* polling.rs:75
    previous_status,   \* polling.rs:65   session id -> SessionStatus
    last_notification_time, \* polling.rs:71  session id -> elapsed ms
    sessions,          \* the Vec<Session> of the last successful detection
    emitted,           \* payload of the last "sessions-updated" event
    broadcast,         \* payload of the last sessions_tx.send
    \* ---- history, kept for the properties
    cycle,             \* what the cycle that has just ended did (NoCycle
                       \* once the loop has woken up again)
    fired,             \* the notifications that cycle fired, in order
    since_fired        \* session id -> elapsed ms since its last notification

vars == <<PERMISSION_CHECKER, window, inferred, settings_file, tool_use, approved, file_view, enriched,
          claude_processes, log_files, found,
          filesystem, requested_id, conversation,
          log_file, tail_n, parsed,
          channel, subscribers,
          on_demand, polled,
          candidate, matched,
          disk,
          held_back,
          pc, is_first_cycle,
          previous_status, last_notification_time, sessions, emitted,
          broadcast, cycle, fired, since_fired>>

statusVars == <<window, inferred>>
permissionVars == <<settings_file, tool_use, approved>>
enrichVars == <<file_view, enriched>>
detectVars == <<claude_processes, log_files, found>>
lookupVars == <<filesystem, requested_id, conversation>>
parseVars == <<log_file, tail_n, parsed>>
broadcastVars == <<channel, subscribers>>
monitorVars == <<on_demand, polled>>
matchVars == <<candidate, matched>>
degradeVars == <<disk>>
debounceVars == <<held_back>>
harnessVars == <<statusVars, permissionVars, enrichVars, detectVars,
                lookupVars,
                parseVars,
                broadcastVars,
                monitorVars,
                matchVars,
                degradeVars,
                debounceVars>>
loopVars == <<pc, is_first_cycle, previous_status, last_notification_time,
              sessions, emitted, broadcast, cycle, fired, since_fired>>

\* ------------------------------------------------------------ small helpers
Min(a, b) == IF a < b THEN a ELSE b

Range(s) == {s[i] : i \in 1..Len(s)}

\* All sequences over S of length at most n.
SeqsUpTo(S, n) == UNION {[1..k -> S] : k \in 0..n}

EmptyMap == <<>>

MapInsert(m, k, v) == [x \in (DOMAIN m) \cup {k} |-> IF x = k THEN v ELSE m[x]]

MapRetain(m, keep) == [x \in (DOMAIN m) \cap keep |-> m[x]]

\* ------------------------------------------------ session/permissions.rs
\* str::starts_with
StartsWith(s, p) == Len(p) <= Len(s) /\ SubSeq(s, 1, Len(p)) = p

EndsWith(s, p) == Len(p) <= Len(s) /\ SubSeq(s, Len(s) - Len(p) + 1, Len(s)) = p

Contains(s, p) ==
    \E i \in 1..(Len(s) - Len(p) + 1) : SubSeq(s, i, i + Len(p) - 1) = p

RECURSIVE TrimStart(_)
TrimStart(s) == IF s # <<>> /\ Head(s) = " " THEN TrimStart(Tail(s)) ELSE s

RECURSIVE TrimEnd(_)
TrimEnd(s) ==
    IF s # <<>> /\ s[Len(s)] = " " THEN TrimEnd(SubSeq(s, 1, Len(s) - 1)) ELSE s

\* str::trim
Trim(s) == TrimEnd(TrimStart(s))

\* enum AllowPattern, one record shape for the four variants
BashPattern(prefix, wildcard) ==
    [kind |-> "Bash", prefix |-> prefix, wildcard |-> wildcard, name |-> ""]
ToolPattern(name) ==
    [kind |-> "Tool", prefix |-> <<>>, wildcard |-> FALSE, name |-> name]
McpPattern(name) ==
    [kind |-> "Mcp", prefix |-> <<>>, wildcard |-> FALSE, name |-> name]

SkillPattern(name) ==
    [kind |-> "Skill", prefix |-> <<>>, wildcard |-> FALSE, name |-> name]

\* PermissionChecker::default(): no allow-pattern at all
DefaultChecker == <<>>

\* Tool names are held whole; a settings string is held by its characters.
\* Spelling gives the characters of the names the settings of the model use.
Spelling ==
    ("Bash" :> <<"B", "a", "s", "h">>) @@ ("Write" :> <<"W", "r", "i", "t", "e">>) @@ ("Edit" :> <<"E", "d", "i", "t">>)
    @@ ("Skill" :> <<"S", "k", "i", "l", "l">>)
    @@ ("mcp__srv__tool" :> <<"m", "c", "p", "_", "_", "s", "r", "v", "_", "_", "t", "o", "o", "l">>)

\* The name a string spells; every other string stands for a name of no tool.
NameOf(chars) ==
    IF \E n \in DOMAIN Spelling : Spelling[n] = chars
    THEN CHOOSE n \in DOMAIN Spelling : Spelling[n] = chars
    ELSE "other"

\* permissions.rs:75-115, an Option held as a sequence of at most one pattern
parse_pattern(pattern) ==
    IF StartsWith(pattern, <<"B", "a", "s", "h", "(">>) /\ EndsWith(pattern, <<")">>)
    THEN LET inner == SubSeq(pattern, 6, Len(pattern) - 1)
         IN IF EndsWith(inner, <<":", "*">>)
            THEN <<BashPattern(SubSeq(inner, 1, Len(inner) - 2), TRUE)>>
            ELSE <<BashPattern(inner, FALSE)>>
    ELSE IF StartsWith(pattern, <<"m", "c", "p", "_", "_">>)
    THEN <<McpPattern(NameOf(pattern))>>
    ELSE IF StartsWith(pattern, <<"S", "k", "i", "l", "l", "(">>) /\ EndsWith(pattern, <<")">>)
    THEN <<SkillPattern(NameOf(SubSeq(pattern, 7, Len(pattern) - 1)))>>
    ELSE IF ~Contains(pattern, <<"(">>) /\ ~Contains(pattern, <<"_", "_">>)
    THEN <<ToolPattern(NameOf(pattern))>>
    ELSE <<>>

\* permissions.rs:64-67, filter_map over the allow list
RECURSIVE ParsePatterns(_)
ParsePatterns(allowed) ==
    IF allowed = <<>> THEN <<>>
    ELSE parse_pattern(Head(allowed)) \o ParsePatterns(Tail(allowed))

\* The settings source: whether there is a home directory, whether the file
\* can be read and parsed, and the two optional levels around the allow list.
SettingsFile(state, has_permissions, has_allow, allow) ==
    [state |-> state, has_permissions |-> has_permissions,
     has_allow |-> has_allow, allow |-> allow]

\* A variant of from_file that reads an unparseable file as one that allows
\* every shell command.
from_file_lenient(settings) ==
    IF settings.state = "unparseable" THEN <<BashPattern(<<>>, TRUE)>>
    ELSE IF settings.state # "ok" THEN DefaultChecker
    ELSE ParsePatterns(settings.allow)

\* permissions.rs:48-72
from_file(settings) ==
    IF settings.state \in {"missing", "unreadable"} THEN DefaultChecker
    ELSE IF settings.state = "unparseable" THEN DefaultChecker
    ELSE LET allowed == IF settings.has_permissions /\ settings.has_allow
                        THEN settings.allow ELSE <<>>
         IN ParsePatterns(allowed)

\* permissions.rs:38-46
from_settings_file(settings) ==
    IF settings.state = "no_home" THEN DefaultChecker ELSE from_file(settings)

\* A variant of AlwaysApproved without the two web tools.
AlwaysApprovedWithoutWeb ==
    {"Read", "Glob", "Grep", "Task", "TaskList",
     "TaskGet", "TaskCreate", "TaskUpdate", "AskUserQuestion"}

AlwaysApproved ==
    {"Read", "Glob", "Grep", "WebFetch", "WebSearch", "Task", "TaskList",
     "TaskGet", "TaskCreate", "TaskUpdate", "AskUserQuestion"}

\* The tool names of the model that begin with "mcp__".
McpToolNames == {"mcp__srv__tool", "mcp__srv__other"}

\* A variant of is_bash_allowed in which every shell pattern matches by prefix.
is_bash_allowed_by_prefix(checker, command) ==
    \E i \in 1..Len(checker) :
        /\ checker[i].kind = "Bash"
        /\ StartsWith(Trim(command), checker[i].prefix)

is_bash_allowed(checker, command) ==
    LET command_trimmed == Trim(command)
    IN \E i \in 1..Len(checker) :
          /\ checker[i].kind = "Bash"
          /\ IF checker[i].wildcard
                THEN StartsWith(command_trimmed, checker[i].prefix)
                ELSE command_trimmed = checker[i].prefix

\* A variant of is_tool_allowed that is content with a bare name of any tool.
is_tool_allowed_by_any_name(checker, tool_name) ==
    \E i \in 1..Len(checker) : checker[i].kind = "Tool"

\* permissions.rs:183-193
is_tool_allowed(checker, tool_name) ==
    \E i \in 1..Len(checker) :
        checker[i].kind = "Tool" /\ checker[i].name = tool_name

is_mcp_allowed(checker, tool_name) ==
    \E i \in 1..Len(checker) :
        checker[i].kind = "Mcp" /\ checker[i].name = tool_name

\* tool_input is held as its "command" string, <<>> when the field is absent
\* or not a string (unwrap_or("")).
is_auto_approved(checker, tool_name, command) ==
    IF tool_name \in AlwaysApproved THEN TRUE
    ELSE IF tool_name = "Bash" THEN is_bash_allowed(checker, command)
    ELSE IF tool_name \in {"Write", "Edit", "NotebookEdit"}
        THEN is_tool_allowed(checker, tool_name)
    ELSE IF tool_name \in McpToolNames THEN is_mcp_allowed(checker, tool_name)
    ELSE FALSE

\* ----------------------------------------------------- session/parser.rs
\* enum MessageContent
TextBlock == [type |-> "text", id |-> "", name |-> "", command |-> <<>>]
ThinkingBlock == [type |-> "thinking", id |-> "", name |-> "", command |-> <<>>]
ToolUse(id, name, command) ==
    [type |-> "tool_use", id |-> id, name |-> name, command |-> command]
ToolResult(tool_use_id) ==
    [type |-> "tool_result", id |-> tool_use_id, name |-> "", command |-> <<>>]

\* timestamps, as ages
At(age) == [valid |-> TRUE, age |-> age]
BadTimestamp == [valid |-> FALSE, age |-> 0]

\* enum SessionEntry
UserEntry(ts, is_tool_result) ==
    [type |-> "user", timestamp |-> ts, is_tool_result |-> is_tool_result,
     content |-> <<>>, stop_reason |-> "None"]
AssistantEntry(ts, content, stop_reason) ==
    [type |-> "assistant", timestamp |-> ts, is_tool_result |-> FALSE,
     content |-> content, stop_reason |-> stop_reason]
OtherEntry(type) ==
    [type |-> type, timestamp |-> BadTimestamp, is_tool_result |-> FALSE,
     content |-> <<>>, stop_reason |-> "None"]

\* The variants that are neither User nor Assistant.
InformationalTypes == {"file-history-snapshot", "summary", "unknown"}

\* A variant of IsMeaningful that takes only Unknown for informational.
IsNotUnknown(entry) == entry.type # "unknown"

IsMeaningful(entry) == entry.type \in {"user", "assistant"}

\* A line of a log: its length in bytes, the line feed included, and its text.
\* A text is held by what decides its decoding: whether it is blank, whether
\* it is JSON, its "type" tag ("absent" when there is none), whether the
\* fields the tagged variant requires are there, and the entry it decodes to.
Text(blank, json, tag, fields, entry) ==
    [blank |-> blank, json |-> json, tag |-> tag, fields |-> fields, entry |-> entry]

RawLine(bytes, text) == [bytes |-> bytes, text |-> text]

\* What is read of a line from a position inside it: a blank when only the
\* line feed or white space is left, else text that is not JSON.
Fragment(line, skipped) ==
    RawLine(line.bytes - skipped,
            Text(line.text.blank \/ skipped = line.bytes - 1, FALSE, "absent", FALSE,
                 OtherEntry("unknown")))

\* A log file: whether File::open succeeds, and its lines.
LogOf(readable, lines) == [readable |-> readable, lines |-> lines]

\* Result<Vec<_>, String>
ParseOk(entries) == [ok |-> TRUE, entries |-> entries]
ParseErr == [ok |-> FALSE, entries |-> <<>>]

\* serde_json::from_str::<SessionEntry>(line).ok() (parser.rs:266, the enum at
\* 32-60): an Option held as a sequence of at most one entry. A tag that names
\* no variant decodes to Unknown whatever the other fields are.
from_str(text) ==
    IF text.blank \/ ~text.json \/ text.tag = "absent" THEN <<>>
    ELSE IF text.tag \notin {"user", "assistant", "file-history-snapshot", "summary"}
    THEN <<OtherEntry("unknown")>>
    ELSE IF ~text.fields THEN <<>>
    ELSE <<text.entry>>

\* parser.rs:263-268
RECURSIVE parse_jsonl_entries(_)
parse_jsonl_entries(lines) ==
    IF lines = <<>> THEN <<>>
    ELSE from_str(Head(lines).text) \o parse_jsonl_entries(Tail(lines))

\* .filter(|line| !line.trim().is_empty())
NonEmptyLines(lines) ==
    LET NotBlank(line) == ~line.text.blank IN SelectSeq(lines, NotBlank)

\* lines[start..] with start the length less n, or 0
LastLines(lines, n) ==
    LET start == IF Len(lines) > n THEN Len(lines) - n ELSE 0
    IN SubSeq(lines, start + 1, Len(lines))

RECURSIVE FileSize(_)
FileSize(lines) ==
    IF lines = <<>> THEN 0 ELSE Head(lines).bytes + FileSize(Tail(lines))

\* What BufReader::lines yields after a seek to the byte at position: the
\* rest of the line the position lies in, then the lines after it.
RECURSIVE LinesFrom(_, _)
LinesFrom(lines, position) ==
    IF lines = <<>> THEN <<>>
    ELSE IF position <= 0 THEN lines
    ELSE IF position >= Head(lines).bytes
    THEN LinesFrom(Tail(lines), position - Head(lines).bytes)
    ELSE <<Fragment(Head(lines), position)>> \o Tail(lines)

\* parser.rs:215-260
read_last_n_lines(file, n) ==
    IF ~file.readable THEN ParseErr
    ELSE LET file_size == FileSize(file.lines)
         IN IF file_size = 0 THEN ParseOk(<<>>)
            ELSE IF file_size < SMALL_FILE_BYTES
            THEN ParseOk(LastLines(NonEmptyLines(file.lines), n))
            ELSE LET chunk_size == Min(n * CHUNK_BYTES_PER_LINE, file_size)
                     lines == NonEmptyLines(LinesFrom(file.lines,
                                                      file_size - chunk_size))
                 IN ParseOk(LastLines(lines, n))

\* parser.rs:271-277
parse_last_n_entries(file, n) ==
    LET lines == read_last_n_lines(file, n)
    IN IF lines.ok THEN ParseOk(parse_jsonl_entries(lines.entries)) ELSE ParseErr

\* parser.rs:280-292
parse_all_entries(file) ==
    IF ~file.readable THEN ParseErr
    ELSE ParseOk(parse_jsonl_entries(NonEmptyLines(file.lines)))

\* ----------------------------------------------------- session/status.rs
is_entry_recent(timestamp, seconds) ==
    IF timestamp.valid THEN timestamp.age < seconds ELSE FALSE

\* A variant of check_all_tools_completed that takes any outcome in the turn
\* for the outcome of every invocation.
check_all_tools_completed_by_any_result(content) ==
    \/ \A i \in 1..Len(content) : content[i].type # "tool_use"
    \/ \E i \in 1..Len(content) : content[i].type = "tool_result"

\* status.rs:296-327
check_all_tools_completed(content) ==
    LET tool_use_ids == {content[i].id :
                            i \in {j \in 1..Len(content) : content[j].type = "tool_use"}}
        tool_result_ids == {content[i].id :
                            i \in {j \in 1..Len(content) : content[j].type = "tool_result"}}
    IN IF tool_use_ids = {} THEN TRUE ELSE tool_use_ids \subseteq tool_result_ids

has_pending_tool_uses(content) == ~check_all_tools_completed(content)

\* The positions of the tool uses that have no result in the same content.
PendingIndices(content) ==
    LET completed_ids == {content[i].id :
                            i \in {j \in 1..Len(content) : content[j].type = "tool_result"}}
    IN {i \in 1..Len(content) :
            content[i].type = "tool_use" /\ content[i].id \notin completed_ids}

\* A variant of are_pending_tools_auto_approved that is content with one
\* approved pending tool.
some_pending_tool_auto_approved(content) ==
    \E i \in PendingIndices(content) :
        is_auto_approved(PERMISSION_CHECKER, content[i].name, content[i].command)

are_pending_tools_auto_approved(content) ==
    \A i \in PendingIndices(content) :
        is_auto_approved(PERMISSION_CHECKER, content[i].name, content[i].command)

\* A variant of analyze_assistant_message that takes a turn whose tools are all
\* completed and that carries no stop reason for one still being generated.
analyze_assistant_message_streaming(message) ==
    LET has_tool_use == \E i \in 1..Len(message.content) :
                            message.content[i].type = "tool_use"
    IN IF has_tool_use /\ ~check_all_tools_completed(message.content)
       THEN IF are_pending_tools_auto_approved(message.content)
            THEN "Working" ELSE "NeedsPermission"
       ELSE CASE message.stop_reason = "end_turn" -> "WaitingForInput"
              [] message.stop_reason = "tool_use" /\ has_tool_use -> "Working"
              [] message.stop_reason = "None" -> "Working"
              [] OTHER -> "WaitingForInput"

analyze_assistant_message(message) ==
    LET has_tool_use == \E i \in 1..Len(message.content) :
                            message.content[i].type = "tool_use"
    IN IF has_tool_use
       THEN IF check_all_tools_completed(message.content)
            THEN CASE message.stop_reason = "end_turn" -> "WaitingForInput"
                   [] message.stop_reason = "tool_use" -> "Working"
                   [] OTHER -> "WaitingForInput"
            ELSE IF are_pending_tools_auto_approved(message.content)
                 THEN "Working"
                 ELSE "NeedsPermission"
       ELSE CASE message.stop_reason = "end_turn" -> "WaitingForInput"
              [] message.stop_reason \in {"max_tokens", "stop_sequence"} -> "WaitingForInput"
              [] message.stop_reason = "None" -> "Working"
              [] OTHER -> "WaitingForInput"

\* A variant of LastMeaningfulIdx that gives the position of the first User
\* or Assistant entry.
FirstMeaningfulIdx(entries) ==
    LET idx == {i \in 1..Len(entries) : IsMeaningful(entries[i])}
    IN IF idx = {} THEN 0 ELSE CHOOSE i \in idx : \A j \in idx : i <= j

\* status.rs:48-50, 59-61: rposition of the last User or Assistant entry, 0
\* when there is none
LastMeaningfulIdx(entries) ==
    LET idx == {i \in 1..Len(entries) : IsMeaningful(entries[i])}
    IN IF idx = {} THEN 0 ELSE CHOOSE i \in idx : \A j \in idx : j <= i

\* A variant of StatusAfterUser that takes every tool result for work in
\* progress, whatever its age.
StatusAfterUserToolResultWorking(last_entry) ==
    IF last_entry.is_tool_result
    THEN "Working"
    ELSE IF is_entry_recent(last_entry.timestamp, USER_RECENT_SECS)
         THEN "Working" ELSE "WaitingForInput"

\* status.rs:67-86, the last meaningful entry is a User entry
StatusAfterUser(last_entry) ==
    IF last_entry.is_tool_result
    THEN IF is_entry_recent(last_entry.timestamp, USER_RECENT_SECS)
         THEN "Working" ELSE "WaitingForInput"
    ELSE IF is_entry_recent(last_entry.timestamp, USER_RECENT_SECS)
         THEN "Working" ELSE "WaitingForInput"

\* A variant of StatusWithPendingTools that takes a stale pending tool for idle.
StalePendingIsIdle(has_trailing_progress, recent) ==
    IF has_trailing_progress \/ recent THEN "Working" ELSE "WaitingForInput"

\* status.rs:100-108, a tool use is pending and every pending one is approved
StatusWithPendingTools(has_trailing_progress, recent) ==
    IF has_trailing_progress \/ recent THEN "Working" ELSE "Working"

\* A variant of StatusNeedsPermission that holds a stale request back.
NeedsPermissionDebounced(has_trailing_progress, recent) ==
    IF has_trailing_progress \/ recent THEN "NeedsPermission" ELSE "WaitingForInput"

\* status.rs:122-125, a pending tool needs permission: returned at once
StatusNeedsPermission(has_trailing_progress, recent) == "NeedsPermission"

\* A variant of StatusAfterAssistant that decides every turn without a pending
\* tool by its age alone.
StatusAfterAssistantByRecency(last_entry, has_trailing_progress) ==
    LET raw_status == analyze_assistant_message(last_entry)
        recent == is_entry_recent(last_entry.timestamp, ASSISTANT_RECENT_SECS)
    IN CASE raw_status = "NeedsPermission" -> "NeedsPermission"
         [] raw_status = "Working" /\ has_pending_tool_uses(last_entry.content) ->
                StatusWithPendingTools(has_trailing_progress, recent)
         [] OTHER -> IF recent THEN "Working" ELSE "WaitingForInput"

\* status.rs:87-128, the last meaningful entry is an Assistant entry
StatusAfterAssistant(last_entry, has_trailing_progress) ==
    LET raw_status == analyze_assistant_message(last_entry)
    IN CASE raw_status = "Working" ->
                IF has_pending_tool_uses(last_entry.content)
                THEN StatusWithPendingTools(
                        has_trailing_progress,
                        is_entry_recent(last_entry.timestamp, ASSISTANT_RECENT_SECS))
                ELSE IF is_entry_recent(last_entry.timestamp, ASSISTANT_RECENT_SECS)
                     THEN "Working" ELSE "WaitingForInput"
         [] raw_status = "NeedsPermission" ->
                StatusNeedsPermission(
                    has_trailing_progress,
                    is_entry_recent(last_entry.timestamp, ASSISTANT_RECENT_SECS))
         [] OTHER -> raw_status

determine_status(entries) ==
    IF entries = <<>> THEN "Connecting"
    ELSE LET last_meaningful_idx == LastMeaningfulIdx(entries)
         IN IF last_meaningful_idx = 0 THEN "Connecting"
            ELSE LET last_entry == entries[last_meaningful_idx]
                     has_trailing_progress ==
                        \E i \in (last_meaningful_idx + 1)..Len(entries) :
                            entries[i].type = "unknown"
                 IN CASE last_entry.type = "user" -> StatusAfterUser(last_entry)
                      [] last_entry.type = "assistant" ->
                            StatusAfterAssistant(last_entry, has_trailing_progress)
                      [] OTHER -> "WaitingForInput"

NoTool == "none"

\* A variant of LastAssistantIdx that gives the position of the first
\* Assistant entry.
FirstAssistantIdx(entries) ==
    LET idx == {i \in 1..Len(entries) : entries[i].type = "assistant"}
    IN IF idx = {} THEN 0 ELSE CHOOSE i \in idx : \A j \in idx : i <= j

\* status.rs:249-255: position of the last Assistant entry, 0 when there is none
LastAssistantIdx(entries) ==
    LET idx == {i \in 1..Len(entries) : entries[i].type = "assistant"}
    IN IF idx = {} THEN 0 ELSE CHOOSE i \in idx : \A j \in idx : j <= i

\* A variant of get_pending_tool_name that names the last pending tool that
\* needs permission.
get_last_pending_tool_name(entries) ==
    LET a == LastAssistantIdx(entries)
    IN IF a = 0 THEN NoTool
       ELSE LET content == entries[a].content
                needing == {i \in PendingIndices(content) :
                              ~is_auto_approved(PERMISSION_CHECKER,
                                                content[i].name, content[i].command)}
            IN IF needing = {} THEN NoTool
               ELSE content[CHOOSE i \in needing : \A j \in needing : j <= i].name

\* status.rs:247-289
get_pending_tool_name(entries) ==
    LET a == LastAssistantIdx(entries)
    IN IF a = 0 THEN NoTool
       ELSE LET content == entries[a].content
                needing == {i \in PendingIndices(content) :
                              ~is_auto_approved(PERMISSION_CHECKER,
                                                content[i].name, content[i].command)}
            IN IF needing = {} THEN NoTool
               ELSE content[CHOOSE i \in needing : \A j \in needing : i <= j].name

\* --------------------------------------------------- session/detector.rs
\* Paths and directory names are sequences of one-character strings.

\* struct DetectedSession (detector.rs:21-36): session_id is always Some in
\* what find_active_sessions builds, project_path is the project directory of
\* the log the process was bound to.
DetectedSession(pid, cwd, project_path, session_id) ==
    [pid |-> pid, cwd |-> cwd, project_path |-> project_path,
     session_id |-> session_id]

\* struct ClaudeProcess (detector.rs:363-368); cwd is an Option
ClaudeProcess(pid, has_cwd, cwd, start_time) ==
    [pid |-> pid, has_cwd |-> has_cwd, cwd |-> cwd, start_time |-> start_time]

\* One element of session_files (detector.rs:88-89): the log's path is
\* project_dir joined with session_id and ".jsonl"; modified is in whole
\* seconds since the epoch, negative for a time before it.
SessionFile(modified, session_id, project_dir, project_path, has_reliable_path) ==
    [modified |-> modified, session_id |-> session_id, project_dir |-> project_dir,
     project_path |-> project_path, has_reliable_path |-> has_reliable_path]

\* A stable sort of s by descending key, as slice::sort_by with b.cmp(a):
\* elements with equal keys keep their order. keys[i] is the key of s[i].
SortDescending(s, keys) ==
    LET Before(i) == {j \in 1..Len(s) :
                        \/ keys[j] > keys[i]
                        \/ keys[j] = keys[i] /\ j < i}
    IN [k \in 1..Len(s) |->
            s[CHOOSE i \in 1..Len(s) : Cardinality(Before(i)) = k - 1]]

\* A variant of SortFiles that leaves the files in the order they were read.
SortFilesNot(session_files) == session_files

\* detector.rs:153
SortFiles(session_files) ==
    SortDescending(session_files,
                   [i \in 1..Len(session_files) |-> session_files[i].modified])

\* detector.rs:161-162
SortProcesses(processes) ==
    SortDescending(processes,
                   [i \in 1..Len(processes) |-> processes[i].start_time])

\* detector.rs:174-179: the separators become dashes, the colon is removed
RECURSIVE EncodeCwd(_)
EncodeCwd(cwd_str) ==
    IF cwd_str = <<>> THEN <<>>
    ELSE (IF Head(cwd_str) \in {"\\", "/", "_"} THEN <<"-">>
          ELSE IF Head(cwd_str) = ":" THEN <<>>
          ELSE <<Head(cwd_str)>>) \o EncodeCwd(Tail(cwd_str))

\* The names between the separators of a path.
RECURSIVE NormalComponents(_)
NormalComponents(path) ==
    IF path = <<>> THEN <<>>
    ELSE IF Head(path) = "/" THEN NormalComponents(Tail(path))
    ELSE LET stops == {i \in 1..Len(path) : path[i] = "/"}
             n == IF stops = {} THEN Len(path) + 1
                  ELSE CHOOSE i \in stops : \A j \in stops : i <= j
         IN <<SubSeq(path, 1, n - 1)>> \o NormalComponents(SubSeq(path, n, Len(path)))

\* The components of a path, as Path compares them: the root of an absolute
\* path is a component of its own.
Components(path) ==
    (IF path # <<>> /\ Head(path) = "/" THEN <<<<"/">>>> ELSE <<>>)
        \o NormalComponents(path)

\* Path::starts_with
PathStartsWith(path, base) ==
    /\ Len(Components(base)) <= Len(Components(path))
    /\ SubSeq(Components(path), 1, Len(Components(base))) = Components(base)

\* struct SessionEntry (detector.rs:381-383); project_path is an Option
IndexEntry(session_id, project_path) ==
    [session_id |-> session_id, project_path |-> project_path]

\* sessions-index.json of one project directory: whether it reads and decodes
\* (detector.rs:261-262), and struct SessionsIndex (detector.rs:373-377) with
\* entries an Option
SessionsIndex(decodes, has_entries, entries) ==
    [decodes |-> decodes, has_entries |-> has_entries, entries |-> entries]

\* detector.rs:254-295: the project path as an Option
get_project_info_from_index(index, session_id) ==
    IF ~index.decodes \/ ~index.has_entries THEN <<>>
    ELSE LET entries == index.entries
             own == {i \in 1..Len(entries) :
                        /\ entries[i].session_id = session_id
                        /\ entries[i].project_path # <<>>}
         IN IF own # {}
            THEN entries[CHOOSE i \in own : \A j \in own : i <= j].project_path
            ELSE IF entries # <<>> THEN entries[1].project_path
            ELSE <<>>

\* detector.rs:114-133: the path kept with a log and whether it is reliable
ProjectInfo(project_dir, index, session_id) ==
    LET info == get_project_info_from_index(index, session_id)
    IN IF info # <<>>
       THEN [project_path |-> info[1], has_reliable_path |-> TRUE]
       ELSE [project_path |-> project_dir, has_reliable_path |-> FALSE]

\* The path a directory name would stand for with every dash a separator.
DecodeDir(dir_name) ==
    [i \in 1..Len(dir_name) |-> IF dir_name[i] = "-" THEN "/" ELSE dir_name[i]]

\* A variant of path_matches that, without a reliable path, compares the
\* working directory with the decoded directory name.
path_matches_decoded(proc_cwd, project_dir, project_path, has_reliable_path) ==
    LET path == IF has_reliable_path THEN project_path ELSE DecodeDir(project_dir)
    IN \/ Components(proc_cwd) = Components(path)
       \/ PathStartsWith(proc_cwd, path)
       \/ project_dir = EncodeCwd(proc_cwd)

\* detector.rs:182-200; project_dir is held as its file name
path_matches(proc_cwd, project_dir, project_path, has_reliable_path) ==
    LET dir_name == project_dir
        direct_match == IF has_reliable_path
                        THEN \/ Components(proc_cwd) = Components(project_path)
                             \/ PathStartsWith(proc_cwd, project_path)
                        ELSE FALSE
        encoded_match == dir_name = EncodeCwd(proc_cwd)
    IN direct_match \/ encoded_match

\* A variant of session_available that lets a claimed log be taken again.
session_always_available(used_session_ids, session_id) == TRUE

\* detector.rs:203-208
session_available(used_session_ids, session_id) ==
    session_id \notin used_session_ids

\* A variant of session_active_after_proc_start without the start-time test.
session_active_whenever(modified, start_time) == modified >= 0

\* detector.rs:220-227
session_active_after_proc_start(modified, start_time) ==
    IF modified >= 0 THEN modified + GRACE_SECS >= start_time ELSE FALSE

\* detector.rs:214-230: the position in the sorted files of the first one the
\* process can take, 0 when there is none
MatchingSession(proc, sorted_files, used_session_ids) ==
    LET fits == {i \in 1..Len(sorted_files) :
                    /\ session_available(used_session_ids, sorted_files[i].session_id)
                    /\ session_active_after_proc_start(sorted_files[i].modified,
                                                       proc.start_time)
                    /\ path_matches(proc.cwd, sorted_files[i].project_dir,
                                    sorted_files[i].project_path,
                                    sorted_files[i].has_reliable_path)}
    IN IF fits = {} THEN 0 ELSE CHOOSE i \in fits : \A j \in fits : i <= j

\* detector.rs:164-248, the loop over the sorted processes, from the i-th on
RECURSIVE BindFrom(_, _, _, _)
BindFrom(sorted_processes, i, sorted_files, used_session_ids) ==
    IF i > Len(sorted_processes) THEN <<>>
    ELSE LET proc == sorted_processes[i]
         IN IF ~proc.has_cwd
            THEN BindFrom(sorted_processes, i + 1, sorted_files, used_session_ids)
            ELSE LET m == MatchingSession(proc, sorted_files, used_session_ids)
                 IN IF m = 0
                    THEN BindFrom(sorted_processes, i + 1, sorted_files,
                                  used_session_ids)
                    ELSE <<DetectedSession(proc.pid, proc.cwd,
                                           sorted_files[m].project_dir,
                                           sorted_files[m].session_id)>>
                         \o BindFrom(sorted_processes, i + 1, sorted_files,
                                     used_session_ids \cup {sorted_files[m].session_id})

\* detector.rs:82-251; session_files is what lines 91-150 collected
find_active_sessions(processes, session_files) ==
    BindFrom(SortProcesses(processes), 1, SortFiles(session_files), {})

\* A variant of detect_sessions that, finding no process, takes every log for
\* a session of its own.
detect_sessions_from_logs(processes, session_files) ==
    IF processes = <<>>
    THEN [i \in 1..Len(session_files) |->
             DetectedSession(0, session_files[i].project_path,
                             session_files[i].project_dir,
                             session_files[i].session_id)]
    ELSE find_active_sessions(processes, session_files)

\* detector.rs:59-79; processes is what find_claude_processes returned
detect_sessions(processes, session_files) ==
    IF processes = <<>> THEN <<>>
    ELSE find_active_sessions(processes, session_files)

\* ------------------------------------------------------------ polling.rs
\* A variant of is_file_recently_modified that counts the threshold itself as
\* recent.
is_file_recently_modified_inclusive(mtime, seconds) ==
    IF mtime.valid THEN mtime.age <= seconds ELSE FALSE

\* The file modification time is held like a timestamp: its age in whole
\* seconds, or not valid when metadata() fails or the time lies in the future
\* (SystemTime::elapsed() is then an Err).
is_file_recently_modified(mtime, seconds) ==
    IF mtime.valid THEN mtime.age < seconds ELSE FALSE

\* What the filesystem shows for one session's log in one cycle: the entries
\* parse_last_n_entries returns (<<>> when the read fails), the message count
\* taken from the index or counted in the file, the modification time.
FileView(entries, message_count, mtime) ==
    [entries |-> entries, message_count |-> message_count, mtime |-> mtime]

\* A variant of EnrichStatus that shows every session whose log was written
\* a moment ago as Working.
EnrichStatusRecentIsWorking(view) ==
    IF is_file_recently_modified(view.mtime, FILE_RECENT_SECS) THEN "Working"
    ELSE IF view.entries = <<>> THEN "Connecting"
    ELSE determine_status(view.entries)

\* The status of one detected session, polling.rs:287-305
EnrichStatus(view) ==
    IF view.entries = <<>> THEN "Connecting"
    ELSE LET raw_status == determine_status(view.entries)
         IN IF raw_status = "WaitingForInput"
               /\ is_file_recently_modified(view.mtime, FILE_RECENT_SECS)
            THEN "Working"
            ELSE raw_status

\* A log as the cycle finds it: whether File::open succeeds, the entries of
\* its tail, the number of its user and assistant lines, its modification time.
LogOnDisk(opens, entries, messages, mtime) ==
    [opens |-> opens, entries |-> entries, messages |-> messages, mtime |-> mtime]

\* What lies on disk for one session: session_entry is the message count of
\* the session's entry in a sessions-index.json that parses and lists it, an
\* Option (polling.rs:229-239), and the log.
OnDisk(session_entry, log) == [session_entry |-> session_entry, log |-> log]

\* polling.rs:435-454
count_messages_in_jsonl(log) == IF log.opens THEN log.messages ELSE 0

\* polling.rs:229-286: the entries and the message count of one session
ViewOf(on_disk) ==
    FileView(IF on_disk.log.opens THEN on_disk.log.entries ELSE <<>>,
             IF on_disk.session_entry # <<>> THEN on_disk.session_entry[1]
             ELSE count_messages_in_jsonl(on_disk.log),
             on_disk.log.mtime)

\* struct Session, the fields the loop and its subscribers read
Session(detected, view) ==
    [id |-> detected.session_id,
     pid |-> detected.pid,
     message_count |-> view.message_count,
     status |-> EnrichStatus(view),
     pending_tool_name |-> get_pending_tool_name(view.entries)]

\* A variant of SkipEmptySession that drops nothing.
SkipNothing(message_count) == FALSE

\* polling.rs:310-314: a session without any message is left out
SkipEmptySession(message_count) == message_count = 0

\* polling.rs:214-340, the loop over detected_sessions
RECURSIVE EnrichFrom(_, _, _, _)
EnrichFrom(detected_sessions, files, i, seen_ids) ==
    IF i > Len(detected_sessions) THEN <<>>
    ELSE LET detected == detected_sessions[i]
             session_id == detected.session_id
         IN IF session_id \in seen_ids
            THEN EnrichFrom(detected_sessions, files, i + 1, seen_ids)
            ELSE IF SkipEmptySession(files[session_id].message_count)
            THEN EnrichFrom(detected_sessions, files, i + 1, seen_ids \cup {session_id})
            ELSE <<Session(detected, files[session_id])>>
                 \o EnrichFrom(detected_sessions, files, i + 1,
                               seen_ids \cup {session_id})

\* A variant of detect_and_enrich_sessions_with_detector that gives up the
\* whole list when the log of one session yields no entry.
detect_and_enrich_or_give_up(detected_sessions, files) ==
    IF \E i \in 1..Len(detected_sessions) :
          files[detected_sessions[i].session_id].entries = <<>>
    THEN <<>>
    ELSE EnrichFrom(detected_sessions, files, 1, {})

\* polling.rs:204-340
detect_and_enrich_sessions_with_detector(detected_sessions, files) ==
    EnrichFrom(detected_sessions, files, 1, {})

\* A variant of MemoryKey that tells sessions apart by their process.
MemoryKeyByPid(session) == session.pid

\* polling.rs:82-83, 92, 97, 116, 132, 138: the key of a session in the maps
MemoryKey(session) == session.id

SessionIdsOf(snapshot) == {MemoryKey(snapshot[i]) : i \in 1..Len(snapshot)}

\* A variant of should_notify that fires on every change to the two statuses.
should_notify_any_change(prev_status, status) ==
    prev_status # status /\ status \in {"NeedsPermission", "WaitingForInput"}

\* polling.rs:100-110
should_notify(prev_status, status) ==
    \/ prev_status = "Working" /\ status = "NeedsPermission"
    \/ prev_status = "Working" /\ status = "WaitingForInput"

\* A variant of on_cooldown that never holds a notification back.
on_cooldown_never(last_times, session_id) == FALSE

\* polling.rs:115-118
on_cooldown(last_times, session_id) ==
    IF session_id \in DOMAIN last_times
    THEN last_times[session_id] < notification_cooldown
    ELSE FALSE

\* What fire_notification sends (polling.rs:468-534), with two facts about
\* the moment it is sent: whether the previous notification for the same
\* session id was fired less than the cooldown ago, and whether the id has
\* been in every snapshot since that previous notification.
Notification(session, prev_status, history) ==
    [session_id |-> session.id,
     pid |-> session.pid,
     prev_status |-> prev_status,
     status |-> session.status,
     pending_tool_name |-> session.pending_tool_name,
     too_soon |-> IF session.id \in DOMAIN history
                     THEN history[session.id].elapsed < notification_cooldown
                     ELSE FALSE,
     unbroken |-> IF session.id \in DOMAIN history
                     THEN history[session.id].unbroken ELSE FALSE]

\* polling.rs:97-141, the later cycles: the loop over the sessions, from the
\* i-th on; `out` collects the notifications fired and `held` the session ids
\* whose notification the cooldown held back.
RECURSIVE CheckFrom(_, _, _, _, _, _)
CheckFrom(snapshot, i, prev_map, last_times, out, held) ==
    IF i > Len(snapshot)
    THEN [prev |-> prev_map, last |-> last_times, fired |-> out, suppressed |-> held]
    ELSE LET session == snapshot[i]
             key == MemoryKey(session)
             worthy == /\ key \in DOMAIN prev_map
                       /\ should_notify(prev_map[key], session.status)
             notify == worthy /\ ~on_cooldown(last_times, key)
         IN CheckFrom(
                snapshot, i + 1,
                MapInsert(prev_map, key, session.status),
                IF notify THEN MapInsert(last_times, key, 0) ELSE last_times,
                IF notify
                THEN Append(out, Notification(session, prev_map[key], since_fired))
                ELSE out,
                IF worthy /\ ~notify THEN held \cup {key} ELSE held)

\* A variant of CheckTransitions that takes a session it has no memory of for
\* one that was Working.
CheckTransitionsFromWorking(snapshot, prev_map, last_times) ==
    CheckFrom(snapshot, 1,
              [id \in (DOMAIN prev_map) \cup SessionIdsOf(snapshot) |->
                  IF id \in DOMAIN prev_map THEN prev_map[id] ELSE "Working"],
              last_times, <<>>, {})

\* A variant of CheckTransitions that leaves the remembered status of a
\* session as it was when the cooldown holds its notification back.
CheckTransitionsKeepingHeld(snapshot, prev_map, last_times) ==
    LET r == CheckFrom(snapshot, 1, prev_map, last_times, <<>>, {})
    IN [r EXCEPT !.prev = [id \in DOMAIN r.prev |->
                              IF id \in r.suppressed THEN prev_map[id]
                              ELSE r.prev[id]]]

\* polling.rs:97-141
CheckTransitions(snapshot, prev_map, last_times) ==
    CheckFrom(snapshot, 1, prev_map, last_times, <<>>, {})

\* A variant of SeedFirstCycle that takes a session it has no memory of for one
\* that was Working.
SeedFirstCycleNotifying(snapshot, prev_map, last_times) ==
    CheckTransitions(snapshot,
                     [id \in (DOMAIN prev_map) \cup SessionIdsOf(snapshot) |->
                         IF id \in DOMAIN prev_map THEN prev_map[id] ELSE "Working"],
                     last_times)

\* polling.rs:88-94, the first cycle: seed the map, notify nothing
SeedFirstCycle(snapshot, prev_map, last_times) ==
    [prev |-> [id \in (DOMAIN prev_map) \cup SessionIdsOf(snapshot) |->
                  IF id \in SessionIdsOf(snapshot)
                  THEN (CHOOSE s \in Range(snapshot) : MemoryKey(s) = id).status
                  ELSE prev_map[id]],
     last |-> last_times,
     fired |-> <<>>,
     suppressed |-> {}]

\* A variant of CleanUp that keeps every key.
KeepAll(m, current_session_ids) == m

\* polling.rs:145-146
CleanUp(m, current_session_ids) == MapRetain(m, current_session_ids)

\* A variant of PublishedPayload that shows a session under the status the
\* loop remembers for it while its last notification is less than the
\* cooldown old.
PublishedPayloadHeld(snapshot) ==
    [i \in 1..Len(snapshot) |->
        IF /\ snapshot[i].id \in DOMAIN previous_status
           /\ on_cooldown(last_notification_time, snapshot[i].id)
        THEN [snapshot[i] EXCEPT !.status = previous_status[snapshot[i].id]]
        ELSE snapshot[i]]

\* polling.rs:161-169: the event and the broadcast both carry the whole list
PublishedPayload(snapshot) == snapshot

\* A variant of ShouldPublish that publishes changed snapshots only.
PublishOnChange(snapshot, previous_snapshot) == snapshot # previous_snapshot

\* polling.rs:161-169: nothing guards the two sends
ShouldPublish(snapshot, previous_snapshot) == TRUE

\* A variant of AfterFailedDetection that leaves the loop.
BreakOnFailedDetection == "exited"

\* polling.rs:171-174: a failed detection is logged and the loop goes on
AfterFailedDetection == "sleep"

\* polling.rs:56-62: the detector is created before the loop is entered
AfterDetectorNew(home_resolvable) == IF home_resolvable THEN "loop" ELSE "exited"

\* What the last cycle did: whether detection succeeded, whether it was the
\* first cycle, whether its snapshot differs from the one before, whether it
\* emitted the event and sent the broadcast, whose notification it held back,
\* which detected session ids it left out of the snapshot.
CycleRecord(outcome, first, changed, published, suppressed, dropped) ==
    [outcome |-> outcome, first |-> first, changed |-> changed,
     emitted |-> published, sent |-> published, suppressed |-> suppressed,
     dropped |-> dropped]

NoCycle == CycleRecord("none", FALSE, FALSE, FALSE, {}, {})

\* ------------------------------------------------------------------ lib.rs
\* A path is held as the sequence of its components. Path::join: a relative
\* path is appended, a path that begins with "/" replaces the base.
JoinPath(base, relative) ==
    IF relative # <<>> /\ Head(relative) = "/" THEN Components(relative)
    ELSE base \o Components(relative)

\* The path the operating system follows: "." stays, ".." goes to the parent
\* (the parent of the root is the root).
RECURSIVE Resolve(_)
Resolve(path) ==
    IF path = <<>> THEN <<>>
    ELSE LET parent == Resolve(SubSeq(path, 1, Len(path) - 1))
             last == path[Len(path)]
         IN IF last = <<".">> THEN parent
            ELSE IF last = <<".", ".">>
            THEN (IF parent = <<>> THEN <<>>
                  ELSE SubSeq(parent, 1, Len(parent) - 1))
            ELSE Append(parent, last)

\* lib.rs:73
ClaudeProjectsDir == <<<<"home">>, <<".claude">>, <<"projects">>>>

\* Result<Conversation, String>, with the files the call opened and whether it
\* touched the filesystem at all.
LookupOk(session_id, opened) ==
    [done |-> TRUE, ok |-> TRUE, error |-> "", session_id |-> session_id,
     opened |-> opened, touched |-> TRUE]

LookupErr(error, touched) ==
    [done |-> TRUE, ok |-> FALSE, error |-> error, session_id |-> <<>>,
     opened |-> {}, touched |-> touched]

\* lib.rs:80-107, the loop over the entries of the projects directory from
\* the i-th on
RECURSIVE ScanProjects(_, _, _, _)
ScanProjects(fs, session_id, session_filename, i) ==
    IF i > Len(fs.entries)
    THEN LookupErr("Session not found in any project directory", TRUE)
    ELSE LET project_path == Append(ClaudeProjectsDir, fs.entries[i].name)
             session_file == JoinPath(project_path, session_filename)
         IN IF ~fs.entries[i].is_dir
            THEN ScanProjects(fs, session_id, session_filename, i + 1)
            ELSE IF Resolve(session_file) \in fs.files
            THEN (IF Resolve(session_file) \in fs.locked
                  THEN LookupErr("Failed to parse session file", TRUE)
                  ELSE LookupOk(session_id, {Resolve(session_file)}))
            ELSE ScanProjects(fs, session_id, session_filename, i + 1)

\* lib.rs:71-113; the extension is held as one character
get_conversation_data(fs, session_id) ==
    IF ~fs.home THEN LookupErr("Failed to get home directory", FALSE)
    ELSE IF ~fs.projects_readable
    THEN LookupErr("Failed to read projects directory", TRUE)
    ELSE ScanProjects(fs, session_id, session_id \o <<".", "jsonl">>, 1)

\* ----------------------------------------------------- the broadcast channels
\* tokio::sync::broadcast as lib.rs:260-261 creates it: which of the two
\* channels it is, the number of messages sent so far (a message is named by
\* its number), the messages retained, oldest first, and whether the
\* receiver returned by channel() is still alive.
Channel(kind, published, buffer, initial_rx) ==
    [kind |-> kind, published |-> published, buffer |-> buffer,
     initial_rx |-> initial_rx]

\* A task of handle_socket: where it stands, and the number of the first
\* message its receiver has not passed yet.
Subscriber(mode, next) == [mode |-> mode, next |-> next]

\* The modes in which the task holds a receiver.
ReceiverModes == {"select", "awaiting_client", "sending"}

ReceiverCount(ch, subs) ==
    Cardinality({i \in 1..Len(subs) : subs[i].mode \in ReceiverModes})
    + (IF ch.initial_rx THEN 1 ELSE 0)

\* A variant of Sender::send that retains every message.
send_unbounded(ch, subs) ==
    IF ReceiverCount(ch, subs) = 0
    THEN Channel(ch.kind, ch.published + 1, ch.buffer, ch.initial_rx)
    ELSE Channel(ch.kind, ch.published + 1, Append(ch.buffer, ch.published + 1),
                 ch.initial_rx)

\* Sender::send (polling.rs:168, 532): with no receiver the message is
\* returned in an Err, which the loop ignores; else it is stored, over the
\* oldest retained one when the channel is full.
send(ch, subs) ==
    IF ReceiverCount(ch, subs) = 0
    THEN Channel(ch.kind, ch.published + 1, ch.buffer, ch.initial_rx)
    ELSE LET stored == Append(ch.buffer, ch.published + 1)
         IN Channel(ch.kind, ch.published + 1,
                    IF Len(stored) > CHANNEL_CAPACITY THEN Tail(stored) ELSE stored,
                    ch.initial_rx)

\* The receiver has been overtaken: a message it has not passed is gone.
Lagged(ch, sub) == ch.buffer # <<>> /\ sub.next < Head(ch.buffer)

\* The messages the receiver can still be given.
Backlog(ch, next) == {msg \in Range(ch.buffer) : msg >= next}

\* ------------------------------------------------------------- the inputs
CmdLs == <<"l", "s">>
CmdRm == <<"r", "m">>

Policies ==
    {DefaultChecker,
     <<BashPattern(<<"l">>, TRUE)>>,
     <<ToolPattern("Write"), BashPattern(<<"l">>, FALSE)>>}

\* The policy the loop is run under: one that allows another shell command
\* than the one of FileViews.
LoopPolicies == {<<BashPattern(CmdRm, FALSE)>>}

ToolIds == {"t1", "t2"}

GenTools == {[name |-> "Read", command |-> <<>>],
             [name |-> "Bash", command |-> CmdLs]}

GenBlocks ==
    {TextBlock}
    \cup {ToolUse(id, t.name, t.command) : id \in ToolIds, t \in GenTools}
    \cup {ToolResult(id) : id \in ToolIds}

\* The current time, ages on both sides of each threshold, and a timestamp that
\* does not parse.
GenUserTimestamps == {At(USER_RECENT_SECS - 1), At(USER_RECENT_SECS), BadTimestamp}

GenAssistantTimestamps ==
    {At(0), At(ASSISTANT_RECENT_SECS - 1), At(ASSISTANT_RECENT_SECS), BadTimestamp}

GenStopReasons == {"None", "end_turn", "tool_use", "max_tokens"}

GenTurns(max_blocks) ==
    {UserEntry(ts, r) : ts \in GenUserTimestamps, r \in BOOLEAN}
    \cup {AssistantEntry(ts, c, sr) :
            ts \in GenAssistantTimestamps, c \in SeqsUpTo(GenBlocks, max_blocks),
            sr \in GenStopReasons}

\* What may precede the generated turn: nothing, or an earlier assistant turn
\* with a pending Write and an outcome for t1 followed by the tool-result
\* record of the user side.
GenPrefixes ==
    {<<>>,
     <<AssistantEntry(At(0), <<ToolUse("t3", "Write", <<>>), ToolResult("t1")>>,
                      "tool_use"),
       UserEntry(At(0), TRUE)>>}

\* What may follow it: informational records only.
GenTrails ==
    {<<>>,
     <<OtherEntry("unknown")>>,
     <<OtherEntry("file-history-snapshot")>>,
     <<OtherEntry("summary"), OtherEntry("unknown")>>}

Windows(max_blocks) ==
    {p \o m \o t : p \in GenPrefixes,
                   m \in {<<>>} \cup {<<e>> : e \in GenTurns(max_blocks)},
                   t \in GenTrails}

NoResult == [status |-> "none", pending_tool_name |-> NoTool]

\* ---- what the naming of the pending tool is shown
\* A shell command, a write and a read under ids of their own, and outcomes
\* for the first two.
GenPendingBlocks ==
    {ToolUse("t1", "Bash", CmdLs), ToolUse("t2", "Write", <<>>),
     ToolUse("t3", "Read", <<>>), ToolResult("t1"), ToolResult("t2")}

\* What may follow the turn: nothing, the tool-result record of the user
\* side, or an informational record.
GenPendingTrails == {<<>>, <<UserEntry(At(0), TRUE)>>, <<OtherEntry("unknown")>>}

PendingWindows(max_blocks) ==
    {p \o m \o t :
        p \in GenPrefixes,
        m \in {<<>>} \cup {<<AssistantEntry(At(0), c, "tool_use")>> :
                               c \in SeqsUpTo(GenPendingBlocks, max_blocks)},
        t \in GenPendingTrails}

\* ---- what the detector is shown
CwdA == <<"/", "a">>
CwdAB == <<"/", "a", "/", "b">>
CwdA_B == <<"/", "a", "_", "b">>
DirA == <<"-", "a">>
DirAB == <<"-", "a", "-", "b">>
DirX == <<"-", "x">>

PidAt(i) == 40 + i

\* Start times on both sides of the grace of the modification times below.
GenStartTimes == {9, 10}

GenModified == {4, 5, 12}

\* A process: without a working directory (its start time then has no
\* effect), or in /a or /a/b.
GenProcesses(i) ==
    {ClaudeProcess(PidAt(i), FALSE, <<>>, 9)}
    \cup {ClaudeProcess(PidAt(i), TRUE, c, t) : c \in {CwdA, CwdAB}, t \in GenStartTimes}

\* sysinfo lists every process once: the pids are distinct.
GenProcessLists ==
    UNION {{ps \in [1..n -> UNION {GenProcesses(i) : i \in 1..n}] :
                \A i \in 1..n : ps[i].pid = PidAt(i)} : n \in 0..MaxProcs}

\* Where a log lies: in the directory named after /a without an index entry
\* (the directory stands in for the project path), in the same with an index
\* entry for /a, or in a directory of another name whose index names /a.
GenPlaces ==
    {[project_dir |-> DirA, project_path |-> DirA, has_reliable_path |-> FALSE],
     [project_dir |-> DirA, project_path |-> CwdA, has_reliable_path |-> TRUE],
     [project_dir |-> DirX, project_path |-> CwdA, has_reliable_path |-> TRUE]}

GenSessionFiles ==
    {SessionFile(m, id, pl.project_dir, pl.project_path, pl.has_reliable_path) :
        m \in GenModified, id \in {"s1", "s2"}, pl \in GenPlaces}

\* A directory holds one file of a name: no two logs share directory and id.
GenSessionFileLists ==
    {fs \in SeqsUpTo(GenSessionFiles, MaxFiles) :
        \A i, j \in 1..Len(fs) :
            (i # j) => \/ fs[i].project_dir # fs[j].project_dir
                       \/ fs[i].session_id # fs[j].session_id}

\* ---- what the path matching is shown
CwdAb == <<"/", "a", "b">>
CwdWin == <<"C", ":", "\\", "a">>
CwdRoot == <<"/">>
DirWin == <<"C", "-", "a">>

GenCwds == {CwdA, CwdAB, CwdA_B, CwdAb, CwdWin}

GenDirs == {DirA, DirAB, DirX, DirWin}

\* An index that does not decode, one without entries, one with none, and
\* indexes whose entries carry a project path or lack it.
GenIndexes ==
    {SessionsIndex(FALSE, FALSE, <<>>),
     SessionsIndex(TRUE, FALSE, <<>>),
     SessionsIndex(TRUE, TRUE, <<>>),
     SessionsIndex(TRUE, TRUE, <<IndexEntry("s1", <<CwdA>>)>>),
     SessionsIndex(TRUE, TRUE, <<IndexEntry("s1", <<>>), IndexEntry("s2", <<CwdA>>)>>),
     SessionsIndex(TRUE, TRUE, <<IndexEntry("s2", <<CwdAB>>), IndexEntry("s1", <<CwdRoot>>)>>)}

Candidate(proc_cwd, project_dir, index, session_id) ==
    [proc_cwd |-> proc_cwd, project_dir |-> project_dir, index |-> index,
     session_id |-> session_id]

GenCandidates ==
    {Candidate(c, d, x, id) :
        c \in GenCwds, d \in GenDirs, x \in GenIndexes, id \in {"s1", "s2"}}

NoCandidate == Candidate(<<>>, <<>>, SessionsIndex(FALSE, FALSE, <<>>), "")

NotMatched == [done |-> FALSE, value |-> FALSE]

\* ------------------------------------------------- what the loop is shown
SessionIds == 1..NumSessions

PidOf(session_id) == 100 + session_id

\* The pid of the process that resumes a session after the first one ended.
RestartedPidOf(session_id) == 200 + session_id

\* The detector's answers: the session ids are distinct (detector.rs:158,237).
DetectedLists ==
    {[i \in 1..Len(ids) |-> DetectedSession(PidOf(ids[i]), CwdA, DirA, ids[i])] :
        ids \in {s \in SeqsUpTo(SessionIds, NumSessions) :
                    \A i, j \in 1..Len(s) : i # j => s[i] # s[j]}}

OldText == AssistantEntry(At(USER_RECENT_SECS), <<TextBlock>>, "None")

FileViews ==
    {\* a pending read: Working
     FileView(<<AssistantEntry(At(0), <<ToolUse("t1", "Read", <<>>)>>, "tool_use")>>,
              2, At(FILE_RECENT_SECS)),
     \* a pending shell command: NeedsPermission unless the policy allows it
     FileView(<<AssistantEntry(At(0), <<ToolUse("t1", "Bash", CmdLs)>>, "tool_use"),
                OtherEntry("unknown")>>,
              2, At(0)),
     \* an old answer in a file that lies still: WaitingForInput
     FileView(<<UserEntry(At(USER_RECENT_SECS), FALSE), OldText>>,
              2, At(FILE_RECENT_SECS)),
     \* the same in a file written a moment ago
     FileView(<<UserEntry(At(USER_RECENT_SECS), FALSE), OldText>>,
              2, At(FILE_RECENT_SECS - 1)),
     \* a log that cannot be read, counted by the index
     FileView(<<>>, 2, BadTimestamp),
     \* informational records only
     FileView(<<OtherEntry("file-history-snapshot")>>, 2, At(0)),
     \* a log without any message yet
     FileView(<<OtherEntry("unknown")>>, 0, At(0))}

\* ---- what the permission check is asked
NoToolUse == [name |-> "", command |-> <<>>]

NotAsked == [done |-> FALSE, value |-> FALSE]

Answer(value) == [done |-> TRUE, value |-> value]

GenToolNames ==
    {"Read", "Glob", "Grep", "WebFetch", "WebSearch", "Task", "TaskList",
     "TaskGet", "TaskCreate", "TaskUpdate", "AskUserQuestion",
     "Bash", "Write", "Edit", "NotebookEdit", "Skill"}
    \cup McpToolNames

\* tool inputs: no command field, and commands with blanks around and
\* arguments behind
GenCommands ==
    {<<>>, CmdLs, <<" ">> \o CmdLs \o <<" ">>, CmdLs \o <<" ", "x">>, CmdRm}

GenToolUses == {[name |-> n, command |-> c] : n \in GenToolNames, c \in GenCommands}

\* The strings of the allow lists: shell patterns with and without wildcard,
\* bare names, an MCP name, skills, and strings parse_pattern rejects.
GenAllowLists ==
    {<<>>,
     <<<<"B", "a", "s", "h", "(", "l", ":", "*", ")">>>>,
     <<<<"W", "r", "i", "t", "e">>, <<"B", "a", "s", "h", "(", "l", "s", ")">>>>,
     <<<<"m", "c", "p", "_", "_", "s", "r", "v", "_", "_", "t", "o", "o", "l">>, <<"S", "k", "i", "l", "l">>, <<"B", "a", "s", "h">>, <<"S", "k", "i", "l", "l", "(", "x", ")">>>>,
     <<<<"B", "a", "s", "h", "(", ":", "*", ")">>, <<"E", "d", "i", "t">>>>,
     <<<<"F", "o", "o", "(", "x", ")">>, <<"a", "_", "_", "b">>, <<"B", "a", "s", "h", "(", "r", "m">>,
       <<"W", "r", "i", "t", "e", "(", "x", ")">>, <<"m", "c", "p", "_", "_", "s", "r", "v">>>>}

\* No home directory, no file, a file that cannot be read or parsed, and
\* parsed settings without permissions, without allow, and with an allow list.
GenSettings ==
    {SettingsFile(st, FALSE, FALSE, <<>>) :
        st \in {"no_home", "missing", "unreadable", "unparseable"}}
    \cup {SettingsFile("ok", FALSE, FALSE, <<>>), SettingsFile("ok", TRUE, FALSE, <<>>)}
    \cup {SettingsFile("ok", TRUE, TRUE, a) : a \in GenAllowLists}

\* The value of settings_file where the loading of the checker is not shown.
NoSettings == SettingsFile("not_shown", FALSE, FALSE, <<>>)

\* The policies that can be loaded.
LoadedPolicies == {from_settings_file(st) : st \in GenSettings}

\* ---- the channels
NoChannel == Channel("none", 0, <<>>, FALSE)

NoSubscribers == [i \in 1..MaxSubscribers |-> Subscriber("absent", 0)]

\* ---- what the parser is shown
NoLog == LogOf(FALSE, <<>>)

NotParsed == [done |-> FALSE, all |-> ParseErr, tail |-> ParseErr]

Parsed(all, tail) == [done |-> TRUE, all |-> all, tail |-> tail]

\* A short line and one longer than the bytes read per line asked.
GenLineBytes == {100, 6000}

\* The texts of the i-th line: blank, not JSON, JSON without a tag, a user
\* record without its message, a user record (told from the others by its
\* timestamp), a summary, and a record of a type the parser has no variant for.
GenTexts(i) ==
    {Text(TRUE, FALSE, "absent", FALSE, OtherEntry("unknown")),
     Text(FALSE, FALSE, "absent", FALSE, OtherEntry("unknown")),
     Text(FALSE, TRUE, "absent", TRUE, OtherEntry("unknown")),
     Text(FALSE, TRUE, "user", FALSE, OtherEntry("unknown")),
     Text(FALSE, TRUE, "user", TRUE, UserEntry(At(i), FALSE)),
     Text(FALSE, TRUE, "summary", TRUE, OtherEntry("summary")),
     Text(FALSE, TRUE, "progress", TRUE, OtherEntry("unknown"))}

GenRawLines(i) == {RawLine(b, t) : b \in GenLineBytes, t \in GenTexts(i)}

\* The logs of k lines, the i-th line one of GenRawLines(i).
RECURSIVE GenLines(_)
GenLines(k) ==
    IF k = 0 THEN {<<>>}
    ELSE {Append(ls, l) : ls \in GenLines(k - 1), l \in GenRawLines(k)}

GenLogs(max_lines) ==
    {NoLog} \cup UNION {{LogOf(TRUE, ls) : ls \in GenLines(k)} : k \in 0..max_lines}

GenTailN == {0, 1, 2}

\* ---- what the conversation lookup is shown
\* The filesystem: whether the home directory resolves, whether the projects
\* directory can be listed, its entries in the order read_dir yields them, the
\* files that exist and those of them that cannot be opened.
Filesystem(home, projects_readable, entries, files, locked) ==
    [home |-> home, projects_readable |-> projects_readable, entries |-> entries,
     files |-> files, locked |-> locked]

NoFilesystem == Filesystem(FALSE, FALSE, <<>>, {}, {})

NotLooked ==
    [done |-> FALSE, ok |-> FALSE, error |-> "", session_id |-> <<>>,
     opened |-> {}, touched |-> FALSE]

ProjectDir == Append(ClaudeProjectsDir, <<"p1">>)

\* A log in the project directory, one in a directory under it, one whose
\* name has two dots in it, one in the home directory and one at the root.
LogFile == Append(ProjectDir, <<"s", ".", "jsonl">>)
NestedFile == ProjectDir \o <<<<"a">>, <<"s", ".", "jsonl">>>>
DottedFile == Append(ProjectDir, <<"s", ".", ".", "t", ".", "jsonl">>)
SecretFile == <<<<"home">>, <<"x", ".", "jsonl">>>>
RootFile == <<<<"x", ".", "jsonl">>>>

GenFiles == {LogFile, NestedFile, DottedFile, SecretFile, RootFile}

GenFilesystems ==
    {Filesystem(FALSE, FALSE, <<>>, fs, {}) : fs \in SUBSET GenFiles}
    \cup {Filesystem(TRUE, FALSE, <<>>, fs, {}) : fs \in SUBSET GenFiles}
    \cup {Filesystem(TRUE, TRUE, <<[name |-> <<"p1">>, is_dir |-> d]>>, fs, lk) :
            d \in BOOLEAN, fs \in SUBSET GenFiles, lk \in SUBSET {LogFile}}

\* The ids asked for: of the log, of no file, and ids that lead out of the
\* project directory or have two dots in them.
GenRequestedIds ==
    {<<"s">>, <<"q">>,
     <<".", ".", "/", ".", ".", "/", ".", ".", "/", "x">>,
     <<"a", "/", "s">>,
     <<"s", ".", ".", "t">>,
     <<"/", "x">>}

\* ---- what the loop and the commands beside it are shown
\* The inputs of the loop's last successful detection, and the list the loop
\* held before it.
Polled(detected_sessions, files, previous) ==
    [detected_sessions |-> detected_sessions, files |-> files, previous |-> previous]

NotPolled == Polled(<<>>, <<>>, <<>>)

\* lib.rs:65, 121, 138 and web_server.rs:233: the callers of
\* detect_and_enrich_sessions
OnDemandCommands == {"get_sessions", "stop_session", "rename_session", "getSessions"}

\* lib.rs:127-129, 150-152: the commands that emit what they detected
EmittingCommands == {"stop_session", "rename_session"}

\* ---- what the loop is shown of logs that fail to open
DiskIds == {1, 2}

BothDetected == [id \in DiskIds |-> DetectedSession(PidOf(id), CwdA, DirA, id)]

\* A log with a pending read and one with an old answer, each two messages
\* long, and a log that does not open.
GenLogsOnDisk ==
    {LogOnDisk(TRUE, <<AssistantEntry(At(0), <<ToolUse("t1", "Read", <<>>)>>, "tool_use")>>,
               2, At(FILE_RECENT_SECS)),
     LogOnDisk(TRUE, <<UserEntry(At(USER_RECENT_SECS), FALSE), OldText>>,
               2, At(FILE_RECENT_SECS)),
     LogOnDisk(FALSE, <<>>, 2, BadTimestamp)}

\* The index lists the session with five messages, or gives no entry for it
\* (it is missing, does not parse, or does not list the session).
GenSessionEntries == {<<5>>, <<>>}

GenOnDisk == {OnDisk(e, l) : e \in GenSessionEntries, l \in GenLogsOnDisk}

NoDisk == <<>>

\* ---- what the loop with its held-back notifications is shown
\* The ids whose notification the cooldown has held back since the last one
\* fired for them, and those of them the last cycle fired a notification for.
HeldBack(held, then_fired) == [held |-> held, then_fired |-> then_fired]

NoneHeld == HeldBack({}, {})

\* The logs whose tail opens with a turn, one for each of Working,
\* NeedsPermission and WaitingForInput.
DebounceViews ==
    {view \in FileViews :
        /\ view.entries # <<>>
        /\ IsMeaningful(view.entries[1])
        /\ (view.entries[1].type = "assistant"
            \/ ~is_file_recently_modified(view.mtime, FILE_RECENT_SECS))}

\* ---- what the enrichment of one session is shown
NoView == FileView(<<>>, 0, BadTimestamp)

NotRun == [done |-> FALSE, sessions |-> <<>>]

Returned(snapshot) == [done |-> TRUE, sessions |-> snapshot]

\* Tail windows with each outcome of the inference.
GenTailWindows ==
    {<<>>,
     <<OtherEntry("file-history-snapshot")>>,
     <<UserEntry(At(0), FALSE)>>,
     <<UserEntry(At(USER_RECENT_SECS), TRUE), OtherEntry("unknown")>>,
     <<UserEntry(At(USER_RECENT_SECS), FALSE), OldText>>,
     <<AssistantEntry(At(0), <<ToolUse("t1", "Read", <<>>), ToolResult("t1")>>,
                      "end_turn")>>,
     <<AssistantEntry(At(ASSISTANT_RECENT_SECS), <<ToolUse("t1", "Read", <<>>)>>,
                      "tool_use")>>,
     <<AssistantEntry(At(ASSISTANT_RECENT_SECS), <<ToolUse("t1", "Bash", CmdLs)>>,
                      "tool_use")>>,
     \* a completed read, its record, and a turn of three pending invocations
     <<AssistantEntry(At(0), <<ToolUse("t1", "Read", <<>>), ToolResult("t1")>>, "tool_use"),
       UserEntry(At(0), TRUE),
       AssistantEntry(At(0), <<ToolUse("t3", "Read", <<>>), ToolUse("t2", "Write", <<>>),
                                ToolUse("t1", "Bash", CmdLs)>>, "tool_use"),
       OtherEntry("unknown")>>,
     \* a pending shell command followed by a tool-result record
     <<AssistantEntry(At(0), <<ToolUse("t1", "Bash", CmdLs)>>, "tool_use"),
       UserEntry(At(0), TRUE)>>}

GenMessageCounts == {0, 1, 2}

\* Modification times: this moment, both sides of the threshold, and one that
\* cannot be read or lies in the future.
GenMtimes == {At(0), At(FILE_RECENT_SECS - 1), At(FILE_RECENT_SECS), BadTimestamp}

GenFileViews ==
    {FileView(w, c, m) : w \in GenTailWindows, c \in GenMessageCounts, m \in GenMtimes}

\* ---------------------------------------------------------------- actions
LoopInit ==
    /\ pc = "init"
    /\ is_first_cycle = TRUE
    /\ previous_status = EmptyMap
    /\ last_notification_time = EmptyMap
    /\ sessions = <<>>
    /\ emitted = <<>>
    /\ broadcast = <<>>
    /\ cycle = NoCycle
    /\ fired = <<>>
    /\ since_fired = EmptyMap

StatusIdle ==
    /\ window = <<>>
    /\ inferred = NoResult

PermissionIdle ==
    /\ settings_file = NoSettings
    /\ tool_use = NoToolUse
    /\ approved = NotAsked

EnrichIdle ==
    /\ file_view = NoView
    /\ enriched = NotRun

DetectIdle ==
    /\ claude_processes = <<>>
    /\ log_files = <<>>
    /\ found = NotRun

LookupIdle ==
    /\ filesystem = NoFilesystem
    /\ requested_id = <<>>
    /\ conversation = NotLooked

ParseIdle ==
    /\ log_file = NoLog
    /\ tail_n = 0
    /\ parsed = NotParsed

BroadcastIdle ==
    /\ channel = NoChannel
    /\ subscribers = <<>>

MonitorIdle ==
    /\ on_demand = "none"
    /\ polled = NotPolled

\* polling.rs:51-62: the thread starts and creates its detector
MatchIdle ==
    /\ candidate = NoCandidate
    /\ matched = NotMatched

DegradeIdle ==
    disk = NoDisk

DebounceIdle ==
    held_back = NoneHeld

StartPolling(home_resolvable) ==
    /\ pc = "init"
    /\ pc' = AfterDetectorNew(home_resolvable)
    /\ UNCHANGED <<PERMISSION_CHECKER, harnessVars, is_first_cycle, previous_status,
                   last_notification_time, sessions, emitted, broadcast, cycle,
                   fired, since_fired>>

\* polling.rs:171-177: detect_sessions returned an error
PollCycleErr ==
    /\ pc = "loop"
    /\ pc' = AfterFailedDetection
    /\ cycle' = CycleRecord("err", is_first_cycle, FALSE, FALSE, {}, {})
    /\ fired' = <<>>
    /\ UNCHANGED <<PERMISSION_CHECKER, harnessVars, is_first_cycle, previous_status,
                   last_notification_time, sessions, emitted, broadcast, since_fired>>

\* The history of notifications after a cycle that produced `snapshot`.
History(current_session_ids, notes) ==
    LET notified == {notes[i].session_id : i \in 1..Len(notes)}
    IN [id \in (DOMAIN since_fired) \cup notified |->
            IF id \in notified THEN [elapsed |-> 0, unbroken |-> TRUE]
            ELSE [elapsed |-> since_fired[id].elapsed,
                  unbroken |-> since_fired[id].unbroken
                               /\ id \in current_session_ids]]

\* polling.rs:85-142: the diff against the memory
ProcessTransitions(snapshot) ==
    IF is_first_cycle
    THEN SeedFirstCycle(snapshot, previous_status, last_notification_time)
    ELSE CheckTransitions(snapshot, previous_status, last_notification_time)

\* polling.rs:77-170 and 177: what one cycle whose detection succeeded does
\* to the state of the loop
CycleOk(detected_sessions, files) ==
    /\ pc = "loop"
    /\ \E snapshot \in {detect_and_enrich_sessions_with_detector(detected_sessions, files)} :
       \E current_session_ids \in {SessionIdsOf(snapshot)} :
       \E r \in {ProcessTransitions(snapshot)} :
       \E publish \in {ShouldPublish(snapshot, sessions)} :
          /\ previous_status' = CleanUp(r.prev, current_session_ids)
          /\ last_notification_time' = CleanUp(r.last, current_session_ids)
          /\ fired' = r.fired
          /\ since_fired' = History(current_session_ids, r.fired)
          /\ sessions' = snapshot
          /\ emitted' = IF publish THEN PublishedPayload(snapshot) ELSE emitted
          /\ broadcast' = IF publish THEN PublishedPayload(snapshot) ELSE broadcast
          /\ cycle' = CycleRecord("ok", is_first_cycle, snapshot # sessions,
                                  publish, r.suppressed,
                                  {detected_sessions[i].session_id :
                                      i \in 1..Len(detected_sessions)}
                                  \ current_session_ids)
    /\ is_first_cycle' = FALSE
    /\ pc' = "sleep"

\* polling.rs:77-170 and 177: one cycle whose detection succeeded
PollCycleOk(detected_sessions, files) ==
    /\ CycleOk(detected_sessions, files)
    /\ UNCHANGED <<PERMISSION_CHECKER, harnessVars>>

Elapse(ms, d) == Min(ms + d, notification_cooldown)

\* polling.rs:177: thread::sleep(poll_interval) lasts at least the interval
Sleep(d) ==
    /\ pc = "sleep"
    /\ pc' = "loop"
    /\ last_notification_time' =
          [id \in DOMAIN last_notification_time |->
              Elapse(last_notification_time[id], d)]
    /\ since_fired' =
          [id \in DOMAIN since_fired |->
              [since_fired[id] EXCEPT !.elapsed = Elapse(@, d)]]
    /\ cycle' = NoCycle
    /\ fired' = <<>>
    /\ UNCHANGED <<PERMISSION_CHECKER, harnessVars, is_first_cycle, previous_status,
                   sessions, emitted, broadcast>>

\* A sleep of just the interval, or one drawn out to the whole cooldown.
SleepDurations == {poll_interval, notification_cooldown}

PollCycle ==
    \/ PollCycleErr
    \/ \E detected_sessions \in DetectedLists :
         \E files \in [{detected_sessions[i].session_id :
                            i \in 1..Len(detected_sessions)} -> FileViews] :
            PollCycleOk(detected_sessions, files)

SleepStep == \E d \in SleepDurations : Sleep(d)

Init ==
    /\ PERMISSION_CHECKER \in LoopPolicies
    /\ StatusIdle
    /\ PermissionIdle
    /\ EnrichIdle
    /\ DetectIdle
    /\ LookupIdle
    /\ ParseIdle
    /\ BroadcastIdle
    /\ MonitorIdle
    /\ MatchIdle
    /\ DegradeIdle
    /\ DebounceIdle
    /\ LoopInit

Next ==
    \/ \E home_resolvable \in BOOLEAN : StartPolling(home_resolvable)
    \/ PollCycle
    \/ SleepStep

Spec == Init /\ [][Next]_vars

\* The polling thread is a thread of its own: it is scheduled, and its sleep ends.
FairSpec == Spec /\ WF_vars(PollCycle) /\ WF_vars(SleepStep)

\* ---- the loop and the on-demand detections beside it
\* Answers of the detector about one session, under its first process and
\* under the process that resumed it.
MonitorLists ==
    {<<>>}
    \cup {<<DetectedSession(pid, CwdA, DirA, 1)>> : pid \in {PidOf(1), RestartedPidOf(1)}}

\* The logs that begin with a message.
MonitorViews ==
    {view \in FileViews : view.entries # <<>> /\ IsMeaningful(view.entries[1])}

\* polling.rs:77-170: one successful cycle of the loop, with its inputs kept
MonitoredCycleOk(detected_sessions, files) ==
    /\ CycleOk(detected_sessions, files)
    /\ polled' = Polled(detected_sessions, files, sessions)
    /\ UNCHANGED <<PERMISSION_CHECKER, statusVars, permissionVars, enrichVars,
                   detectVars, lookupVars, parseVars, broadcastVars, matchVars,
                   degradeVars, debounceVars, on_demand>>

MonitoredCycle ==
    \E detected_sessions \in MonitorLists :
      \E files \in [{detected_sessions[i].session_id :
                         i \in 1..Len(detected_sessions)} -> MonitorViews] :
         MonitoredCycleOk(detected_sessions, files)

\* A variant of OnDemandDetection that runs what it detected through the
\* loop's diff against the memory.
OnDemandTracking(command, detected_sessions, files) ==
    \E snapshot \in {detect_and_enrich_sessions_with_detector(detected_sessions, files)} :
    \E r \in {ProcessTransitions(snapshot)} :
       /\ on_demand' = command
       /\ emitted' = IF command \in EmittingCommands THEN snapshot ELSE emitted
       /\ previous_status' = r.prev
       /\ last_notification_time' = r.last
       /\ fired' = r.fired
       /\ UNCHANGED <<PERMISSION_CHECKER, statusVars, permissionVars, enrichVars,
                      detectVars, lookupVars, parseVars, broadcastVars, matchVars,
                      degradeVars, debounceVars, polled,
                      pc, is_first_cycle, sessions, broadcast, cycle, since_fired>>

\* polling.rs:196-201 as lib.rs:65-67, 127-129, 150-152 and web_server.rs:233
\* call it: a detection with a detector of its own, whose result is returned
\* to the caller or emitted as "sessions-updated".
OnDemandDetection(command, detected_sessions, files) ==
    \E snapshot \in {detect_and_enrich_sessions_with_detector(detected_sessions, files)} :
       /\ on_demand' = command
       /\ emitted' = IF command \in EmittingCommands THEN snapshot ELSE emitted
       /\ UNCHANGED <<PERMISSION_CHECKER, statusVars, permissionVars, enrichVars,
                      detectVars, lookupVars, parseVars, broadcastVars, matchVars,
                      degradeVars, debounceVars, polled,
                      pc, is_first_cycle, previous_status, last_notification_time,
                      sessions, broadcast, cycle, fired, since_fired>>

\* The same with a detection that fails: the error is returned, or nothing
\* is emitted.
OnDemandFailed(command) ==
    /\ on_demand' = command
    /\ UNCHANGED <<PERMISSION_CHECKER, statusVars, permissionVars, enrichVars,
                   detectVars, lookupVars, parseVars, broadcastVars, matchVars,
                      degradeVars, debounceVars, polled, matchVars, degradeVars, debounceVars, loopVars>>

OnDemand ==
    \E command \in OnDemandCommands :
       \/ OnDemandFailed(command)
       \/ \E detected_sessions \in MonitorLists :
            \E files \in [{detected_sessions[i].session_id :
                               i \in 1..Len(detected_sessions)} -> MonitorViews] :
               OnDemandDetection(command, detected_sessions, files)

MonitorNext ==
    \/ \E home_resolvable \in BOOLEAN : StartPolling(home_resolvable)
    \/ PollCycleErr
    \/ MonitoredCycle
    \/ SleepStep
    \/ OnDemand

SpecMonitor == Init /\ [][MonitorNext]_vars

\* ---- the loop over two sessions whose logs may fail to open
DegradedCycle ==
    \E on_disk \in [DiskIds -> GenOnDisk] :
       /\ CycleOk(BothDetected, [id \in DiskIds |-> ViewOf(on_disk[id])])
       /\ disk' = on_disk
       /\ UNCHANGED <<PERMISSION_CHECKER, statusVars, permissionVars, enrichVars,
                      detectVars, lookupVars, parseVars, broadcastVars, monitorVars,
                      matchVars, debounceVars>>

DegradeNext ==
    \/ \E home_resolvable \in BOOLEAN : StartPolling(home_resolvable)
    \/ PollCycleErr
    \/ DegradedCycle
    \/ SleepStep

SpecDegrade == Init /\ [][DegradeNext]_vars

\* ---- the loop with its held-back notifications kept
TrackedCycleOk(detected_sessions, files) ==
    /\ CycleOk(detected_sessions, files)
    /\ LET notified == {fired'[k].session_id : k \in 1..Len(fired')}
       IN held_back' = HeldBack((held_back.held \ notified) \cup cycle'.suppressed,
                                notified \cap held_back.held)
    /\ UNCHANGED <<PERMISSION_CHECKER, statusVars, permissionVars, enrichVars,
                   detectVars, lookupVars, parseVars, broadcastVars, monitorVars,
                   matchVars, degradeVars>>

TrackedCycle ==
    \E detected_sessions \in DetectedLists :
      \E files \in [{detected_sessions[i].session_id :
                         i \in 1..Len(detected_sessions)} -> DebounceViews] :
         TrackedCycleOk(detected_sessions, files)

DebounceNext ==
    \/ \E home_resolvable \in BOOLEAN : StartPolling(home_resolvable)
    \/ PollCycleErr
    \/ TrackedCycle
    \/ SleepStep

SpecDebounce == Init /\ [][DebounceNext]_vars

\* ---- the inference on its own
Infer ==
    /\ inferred = NoResult
    /\ inferred' = [status |-> determine_status(window),
                    pending_tool_name |-> get_pending_tool_name(window)]
    /\ UNCHANGED <<PERMISSION_CHECKER, window, permissionVars, enrichVars, detectVars,
                   lookupVars, parseVars, broadcastVars, monitorVars, matchVars, degradeVars, debounceVars, loopVars>>

StatusInit ==
    /\ window \in Windows(MaxBlocks)
    /\ PERMISSION_CHECKER \in Policies
    /\ inferred = NoResult
    /\ PermissionIdle
    /\ EnrichIdle
    /\ DetectIdle
    /\ LookupIdle
    /\ ParseIdle
    /\ BroadcastIdle
    /\ MonitorIdle
    /\ MatchIdle
    /\ DegradeIdle
    /\ DebounceIdle
    /\ LoopInit

StatusNext == Infer

SpecStatus == StatusInit /\ [][StatusNext]_vars

\* ---- the naming of the pending tool on its own
PendingInit ==
    /\ window \in PendingWindows(MaxBlocks)
    /\ PERMISSION_CHECKER \in Policies
    /\ inferred = NoResult
    /\ PermissionIdle
    /\ EnrichIdle
    /\ DetectIdle
    /\ LookupIdle
    /\ ParseIdle
    /\ BroadcastIdle
    /\ MonitorIdle
    /\ MatchIdle
    /\ DegradeIdle
    /\ DebounceIdle
    /\ LoopInit

SpecPending == PendingInit /\ [][StatusNext]_vars

\* ---- the permission check on its own
CheckPermission ==
    /\ approved = NotAsked
    /\ approved' = Answer(is_auto_approved(PERMISSION_CHECKER,
                                           tool_use.name, tool_use.command))
    /\ UNCHANGED <<PERMISSION_CHECKER, settings_file, tool_use, statusVars, enrichVars, detectVars,
                   lookupVars, parseVars, broadcastVars, monitorVars, matchVars, degradeVars, debounceVars, loopVars>>

PermissionInit ==
    /\ settings_file \in GenSettings
    /\ PERMISSION_CHECKER = from_settings_file(settings_file)
    /\ tool_use \in GenToolUses
    /\ approved = NotAsked
    /\ StatusIdle
    /\ EnrichIdle
    /\ DetectIdle
    /\ LookupIdle
    /\ ParseIdle
    /\ BroadcastIdle
    /\ MonitorIdle
    /\ MatchIdle
    /\ DegradeIdle
    /\ DebounceIdle
    /\ LoopInit

PermissionNext == CheckPermission

SpecPermission == PermissionInit /\ [][PermissionNext]_vars

\* ---- the enrichment of one detected session on its own
Enrich ==
    /\ enriched = NotRun
    /\ enriched' = Returned(detect_and_enrich_sessions_with_detector(
                                <<DetectedSession(PidOf(1), CwdA, DirA, 1)>>, [id \in {1} |-> file_view]))
    /\ UNCHANGED <<PERMISSION_CHECKER, file_view, statusVars, permissionVars, detectVars,
                   lookupVars, parseVars, broadcastVars, monitorVars, matchVars, degradeVars, debounceVars, loopVars>>

EnrichInit ==
    /\ PERMISSION_CHECKER \in Policies
    /\ file_view \in GenFileViews
    /\ enriched = NotRun
    /\ StatusIdle
    /\ PermissionIdle
    /\ DetectIdle
    /\ LookupIdle
    /\ ParseIdle
    /\ BroadcastIdle
    /\ MonitorIdle
    /\ MatchIdle
    /\ DegradeIdle
    /\ DebounceIdle
    /\ LoopInit

EnrichNext == Enrich

SpecEnrich == EnrichInit /\ [][EnrichNext]_vars

\* ---- the conversation lookup on its own
Lookup ==
    /\ ~conversation.done
    /\ conversation' = get_conversation_data(filesystem, requested_id)
    /\ UNCHANGED <<PERMISSION_CHECKER, filesystem, requested_id, statusVars,
                   permissionVars, enrichVars, detectVars, parseVars, broadcastVars, monitorVars, matchVars, degradeVars, debounceVars, loopVars>>

LookupInit ==
    /\ PERMISSION_CHECKER = DefaultChecker
    /\ filesystem \in GenFilesystems
    /\ requested_id \in GenRequestedIds
    /\ conversation = NotLooked
    /\ StatusIdle
    /\ PermissionIdle
    /\ EnrichIdle
    /\ DetectIdle
    /\ ParseIdle
    /\ BroadcastIdle
    /\ MonitorIdle
    /\ MatchIdle
    /\ DegradeIdle
    /\ DebounceIdle
    /\ LoopInit

LookupNext == Lookup

SpecLookup == LookupInit /\ [][LookupNext]_vars

\* ---- a channel, the loop that sends into it and the tasks that receive
\* polling.rs:167-169 and 531-533: the loop sends its next message.
Publish ==
    /\ channel.published < MaxSends
    /\ channel' = send(channel, subscribers)
    /\ UNCHANGED <<PERMISSION_CHECKER, subscribers, statusVars, permissionVars,
                   enrichVars, detectVars, lookupVars, parseVars, monitorVars, matchVars, degradeVars, debounceVars, loopVars>>

\* lib.rs:260-261: _rx and _nrx go out of scope when setup returns.
DropInitialReceiver ==
    /\ channel.initial_rx
    /\ channel' = [channel EXCEPT !.initial_rx = FALSE]
    /\ UNCHANGED <<PERMISSION_CHECKER, subscribers, statusVars, permissionVars,
                   enrichVars, detectVars, lookupVars, parseVars, monitorVars, matchVars, degradeVars, debounceVars, loopVars>>

SubscriberStep(i, sub) ==
    /\ subscribers' = [subscribers EXCEPT ![i] = sub]
    /\ UNCHANGED <<PERMISSION_CHECKER, channel, statusVars, permissionVars,
                   enrichVars, detectVars, lookupVars, parseVars, monitorVars, matchVars, degradeVars, debounceVars, loopVars>>

\* web_server.rs:182-184: a client connects; only sessions_tx is subscribed to.
Subscribe(i) ==
    /\ channel.kind = "sessions"
    /\ subscribers[i].mode = "absent"
    /\ SubscriberStep(i, Subscriber("select", channel.published + 1))

\* web_server.rs:212-220: sessions_rx.recv() completes. A Lagged error moves
\* the receiver to the oldest retained message and fails the pattern, which
\* leaves the task waiting for the client alone; a message goes to the socket.
Receive(i) ==
    /\ subscribers[i].mode = "select"
    /\ IF Lagged(channel, subscribers[i])
       THEN SubscriberStep(i, Subscriber("awaiting_client", Head(channel.buffer)))
       ELSE /\ Backlog(channel, subscribers[i].next) # {}
            /\ SubscriberStep(i, Subscriber("sending", subscribers[i].next + 1))

\* web_server.rs:189-208: the client sends a request; the answer goes to the
\* socket.
ClientMessage(i) ==
    /\ subscribers[i].mode \in {"select", "awaiting_client"}
    /\ SubscriberStep(i, Subscriber("sending", subscribers[i].next))

\* socket.send(..).await completes and the task selects again.
SendDone(i) ==
    /\ subscribers[i].mode = "sending"
    /\ SubscriberStep(i, Subscriber("select", subscribers[i].next))

\* web_server.rs:199-201, 209, 218-220: the socket is closed or a send fails;
\* the task ends and its receiver is dropped.
Disconnect(i) ==
    /\ subscribers[i].mode \in ReceiverModes
    /\ SubscriberStep(i, Subscriber("gone", 0))

BroadcastInit ==
    /\ PERMISSION_CHECKER = DefaultChecker
    /\ channel \in {Channel(kind, 0, <<>>, TRUE) : kind \in {"sessions", "notifications"}}
    /\ subscribers = NoSubscribers
    /\ StatusIdle
    /\ PermissionIdle
    /\ EnrichIdle
    /\ DetectIdle
    /\ LookupIdle
    /\ ParseIdle
    /\ MonitorIdle
    /\ MatchIdle
    /\ DegradeIdle
    /\ DebounceIdle
    /\ LoopInit

BroadcastNext ==
    \/ Publish
    \/ DropInitialReceiver
    \/ \E i \in 1..MaxSubscribers : Subscribe(i)
    \/ \E i \in 1..MaxSubscribers : Receive(i)
    \/ \E i \in 1..MaxSubscribers : ClientMessage(i)
    \/ \E i \in 1..MaxSubscribers : SendDone(i)
    \/ \E i \in 1..MaxSubscribers : Disconnect(i)

SpecBroadcast == BroadcastInit /\ [][BroadcastNext]_vars

\* ---- the two parses of one log
Parse ==
    /\ ~parsed.done
    /\ parsed' = Parsed(parse_all_entries(log_file),
                        parse_last_n_entries(log_file, tail_n))
    /\ UNCHANGED <<PERMISSION_CHECKER, log_file, tail_n, statusVars, permissionVars,
                   enrichVars, detectVars, lookupVars, broadcastVars, monitorVars, matchVars, degradeVars, debounceVars, loopVars>>

ParseInit ==
    /\ PERMISSION_CHECKER = DefaultChecker
    /\ log_file \in GenLogs(MaxLines)
    /\ tail_n \in GenTailN
    /\ parsed = NotParsed
    /\ StatusIdle
    /\ PermissionIdle
    /\ EnrichIdle
    /\ DetectIdle
    /\ LookupIdle
    /\ BroadcastIdle
    /\ MonitorIdle
    /\ MatchIdle
    /\ DegradeIdle
    /\ DebounceIdle
    /\ LoopInit

ParseNext == Parse

SpecParse == ParseInit /\ [][ParseNext]_vars

\* ---- the binding of processes to logs on its own
Detect ==
    /\ found = NotRun
    /\ found' = Returned(detect_sessions(claude_processes, log_files))
    /\ UNCHANGED <<PERMISSION_CHECKER, claude_processes, log_files, statusVars,
                   permissionVars, enrichVars, lookupVars, parseVars, broadcastVars, monitorVars, matchVars, degradeVars, debounceVars, loopVars>>

DetectInit ==
    /\ PERMISSION_CHECKER = DefaultChecker
    /\ claude_processes \in GenProcessLists
    /\ log_files \in GenSessionFileLists
    /\ found = NotRun
    /\ StatusIdle
    /\ PermissionIdle
    /\ EnrichIdle
    /\ LookupIdle
    /\ ParseIdle
    /\ BroadcastIdle
    /\ MonitorIdle
    /\ MatchIdle
    /\ DegradeIdle
    /\ DebounceIdle
    /\ LoopInit

DetectNext == Detect

SpecDetect == DetectInit /\ [][DetectNext]_vars

\* ---- the matching of one working directory with one log on its own
Match ==
    /\ ~matched.done
    /\ LET info == ProjectInfo(candidate.project_dir, candidate.index,
                               candidate.session_id)
       IN matched' = [done |-> TRUE,
                      value |-> path_matches(candidate.proc_cwd, candidate.project_dir,
                                             info.project_path, info.has_reliable_path)]
    /\ UNCHANGED <<PERMISSION_CHECKER, candidate, statusVars, permissionVars,
                   enrichVars, detectVars, lookupVars, parseVars, broadcastVars,
                   monitorVars, degradeVars, debounceVars, loopVars>>

MatchInit ==
    /\ PERMISSION_CHECKER = DefaultChecker
    /\ candidate \in GenCandidates
    /\ matched = NotMatched
    /\ StatusIdle
    /\ PermissionIdle
    /\ EnrichIdle
    /\ DetectIdle
    /\ LookupIdle
    /\ ParseIdle
    /\ BroadcastIdle
    /\ MonitorIdle
    /\ DegradeIdle
    /\ DebounceIdle
    /\ LoopInit

MatchNext == Match

SpecMatch == MatchInit /\ [][MatchNext]_vars

\* ============================================================== properties
StatusesOf(snapshot) ==
    [id \in SessionIdsOf(snapshot) |->
        (CHOOSE s \in Range(snapshot) : s.id = id).status]

\* C1: the first cycle whose detection succeeds fires no notification,
\* whatever the statuses of its sessions, and leaves the previous-status
\* memory holding exactly the statuses of its snapshot.
C1_FirstCycleSilent ==
    (cycle.outcome = "ok" /\ cycle.first)
        => (fired = <<>> /\ previous_status = StatusesOf(sessions))

C1_Witness ==
    /\ cycle.outcome = "ok"
    /\ cycle.first
    /\ \E s \in Range(sessions) : s.status = "NeedsPermission"

\* C2: whenever a cycle fires a notification for a session, the status the
\* memory held for that session before the cycle was Working and the status
\* in the cycle's snapshot is NeedsPermission or WaitingForInput.
NotifyStatuses == {"NeedsPermission", "WaitingForInput"}

C2_OnlyOutOfWorking ==
    [][pc = "loop" =>
        \A i \in 1..Len(fired') :
            /\ fired'[i].session_id \in DOMAIN previous_status
            /\ previous_status[fired'[i].session_id] = "Working"
            /\ fired'[i].session_id \in SessionIdsOf(sessions')
            /\ StatusesOf(sessions')[fired'[i].session_id] \in NotifyStatuses]_vars

C2_Witness ==
    /\ fired # <<>>
    /\ fired[1].prev_status = "Working"
    /\ fired[1].status = "WaitingForInput"

\* C3 as stated: no notification is fired less than the cooldown after the
\* previous notification for the same session id.
C3_Original == \A i \in 1..Len(fired) : ~fired[i].too_soon

\* C3 as amended: a notification fired less than the cooldown after the
\* previous one for the same session id is fired only when the id was missing
\* from a snapshot in between; and a notification the cooldown holds back is
\* one for an id notified less than the cooldown ago, which fires nothing.
C3_DebounceWhilePresent ==
    /\ \A i \in 1..Len(fired) : fired[i].too_soon => ~fired[i].unbroken
    /\ \A id \in cycle.suppressed :
          /\ id \in DOMAIN since_fired
          /\ since_fired[id].elapsed < notification_cooldown
          /\ \A i \in 1..Len(fired) : fired[i].session_id # id

C3_Witness ==
    \E s \in Range(sessions) :
        /\ s.id \in cycle.suppressed
        /\ s.status = "NeedsPermission"
        /\ since_fired[s.id].unbroken

\* C4 as stated: every cycle emits the event and sends the broadcast.
C4_Original == cycle.outcome # "none" => (cycle.emitted /\ cycle.sent)

\* C4 as amended: every cycle whose detection succeeded emits the event and
\* sends the broadcast, both carrying the cycle's whole snapshot, whether or
\* not the snapshot differs from the one before.
C4_PublishedEverySuccessfulCycle ==
    cycle.outcome = "ok" =>
        /\ cycle.emitted
        /\ cycle.sent
        /\ emitted = sessions
        /\ broadcast = sessions

C4_Witness ==
    /\ cycle.outcome = "ok"
    /\ ~cycle.first
    /\ ~cycle.changed
    /\ sessions # <<>>
    /\ cycle.emitted

\* C5: once in the loop the thread never leaves it, and after every cycle,
\* a failed one included, it sleeps and then starts another cycle.
InLoop == pc \in {"loop", "sleep"}

C5_LoopGoesOn ==
    /\ [][InLoop => InLoop']_vars
    /\ (pc = "sleep") ~> (pc = "loop")
    /\ (pc = "loop") ~> (pc = "sleep")

C5_Witness == cycle.outcome = "err" /\ pc = "sleep"

\* C6 as stated: the polling thread never stops, also when no home directory
\* can be resolved at its start.
C6_LoopNeverStops == pc # "exited"

\* C7: after a cycle whose detection succeeded the keys of the previous-status
\* memory are the session ids of the snapshot and the keys of the
\* last-notified memory are among them.
C7_MemoryKeys ==
    cycle.outcome = "ok" =>
        /\ DOMAIN previous_status = SessionIdsOf(sessions)
        /\ DOMAIN last_notification_time \subseteq SessionIdsOf(sessions)

C7_Witness ==
    /\ cycle.outcome = "ok"
    /\ \E id \in DOMAIN since_fired :
          /\ id \notin SessionIdsOf(sessions)
          /\ id \notin DOMAIN previous_status
          /\ id \notin DOMAIN last_notification_time

\* ---- the inference
Pending(content, i) ==
    /\ content[i].type = "tool_use"
    /\ \A j \in 1..Len(content) :
          ~(content[j].type = "tool_result" /\ content[j].id = content[i].id)

Approved(block) == is_auto_approved(PERMISSION_CHECKER, block.name, block.command)

\* The last user or assistant turn of the window is an assistant turn.
EndsWithAssistant(w) ==
    \E k \in 1..Len(w) :
        /\ w[k].type = "assistant"
        /\ \A j \in (k + 1)..Len(w) : w[j].type \notin {"user", "assistant"}

LastTurn(w) ==
    w[CHOOSE k \in 1..Len(w) :
        /\ w[k].type \in {"user", "assistant"}
        /\ \A j \in (k + 1)..Len(w) : w[j].type \notin {"user", "assistant"}]

\* C8: for a window that is empty or holds informational entries only the
\* inference returns Connecting.
C8_NoTurnIsConnecting ==
    (/\ inferred # NoResult
     /\ \A i \in 1..Len(window) : window[i].type \in InformationalTypes)
    => inferred.status = "Connecting"

C8_Witness ==
    /\ inferred # NoResult
    /\ window # <<>>
    /\ \A i \in 1..Len(window) : window[i].type \in InformationalTypes

\* C9: when the last turn of the window is an assistant turn with a pending
\* tool use that the policy does not approve, the inference returns
\* NeedsPermission, whatever the other tool uses of the turn are.
C9_UnapprovedPendingNeedsPermission ==
    (/\ inferred # NoResult
     /\ EndsWithAssistant(window)
     /\ \E i \in 1..Len(LastTurn(window).content) :
           /\ Pending(LastTurn(window).content, i)
           /\ ~Approved(LastTurn(window).content[i]))
    => inferred.status = "NeedsPermission"

C9_Witness ==
    /\ inferred # NoResult
    /\ EndsWithAssistant(window)
    /\ \E i, j \in 1..Len(LastTurn(window).content) :
          /\ Pending(LastTurn(window).content, i)
          /\ ~Approved(LastTurn(window).content[i])
          /\ Pending(LastTurn(window).content, j)
          /\ Approved(LastTurn(window).content[j])
    /\ inferred.status = "NeedsPermission"

\* C10: when the last turn of the window is an assistant turn with pending
\* tool uses all of which the policy approves, the inference returns Working,
\* at every age of the turn.
C10_ApprovedPendingIsWorking ==
    (/\ inferred # NoResult
     /\ EndsWithAssistant(window)
     /\ \E i \in 1..Len(LastTurn(window).content) :
           Pending(LastTurn(window).content, i)
     /\ \A i \in 1..Len(LastTurn(window).content) :
           Pending(LastTurn(window).content, i)
               => Approved(LastTurn(window).content[i]))
    => inferred.status = "Working"

C10_Witness ==
    /\ inferred # NoResult
    /\ EndsWithAssistant(window)
    /\ ~is_entry_recent(LastTurn(window).timestamp, ASSISTANT_RECENT_SECS)
    /\ \A i \in 1..Len(window) : window[i].type # "unknown"
    /\ \E i, j, k \in 1..Len(LastTurn(window).content) :
          /\ LastTurn(window).content[i].type = "tool_use"
          /\ ~Approved(LastTurn(window).content[i])
          /\ LastTurn(window).content[j].type = "tool_result"
          /\ LastTurn(window).content[j].id = LastTurn(window).content[i].id
          /\ Pending(LastTurn(window).content, k)
          /\ LastTurn(window).content[k].name = "Read"
    /\ inferred.status = "Working"

\* The entries of the window that follow its last user or assistant turn.
Trailing(w) ==
    {j \in 1..Len(w) : \A k \in j..Len(w) : w[k].type \notin {"user", "assistant"}}

EndsWithUser(w) ==
    \E k \in 1..Len(w) :
        /\ w[k].type = "user"
        /\ \A j \in (k + 1)..Len(w) : w[j].type \notin {"user", "assistant"}

HasPending(content) == \E i \in 1..Len(content) : Pending(content, i)

HasToolUse(content) == \E i \in 1..Len(content) : content[i].type = "tool_use"

Recent(entry, seconds) == entry.timestamp.valid /\ entry.timestamp.age < seconds

RecencyOnly(entry, seconds) ==
    IF Recent(entry, seconds) THEN "Working" ELSE "WaitingForInput"

\* C11: a pending tool use of the last assistant turn that the policy does not
\* approve gives NeedsPermission at every age of the turn, a timestamp that
\* does not parse included, and whatever informational entries follow it.
C11_NeedsPermissionAtOnce ==
    \A i \in 1..Len(window) :
        (/\ inferred # NoResult
         /\ window[i].type = "assistant"
         /\ \A j \in (i + 1)..Len(window) : window[j].type \in InformationalTypes
         /\ \E b \in 1..Len(window[i].content) :
               Pending(window[i].content, b) /\ ~Approved(window[i].content[b]))
        => inferred.status = "NeedsPermission"

C11_Witness ==
    /\ inferred # NoResult
    /\ EndsWithAssistant(window)
    /\ ~Recent(LastTurn(window), ASSISTANT_RECENT_SECS)
    /\ Trailing(window) # {}
    /\ \A j \in Trailing(window) : window[j].type = "file-history-snapshot"
    /\ \E b \in 1..Len(LastTurn(window).content) :
          /\ Pending(LastTurn(window).content, b)
          /\ ~Approved(LastTurn(window).content[b])
    /\ inferred.status = "NeedsPermission"

\* C12 as stated: a last assistant turn without a pending tool use is Working
\* when younger than 20 seconds and WaitingForInput otherwise, for every stop
\* reason.
C12_Original ==
    (/\ inferred # NoResult
     /\ EndsWithAssistant(window)
     /\ ~HasPending(LastTurn(window).content))
    => inferred.status = RecencyOnly(LastTurn(window), ASSISTANT_RECENT_SECS)

\* The turns without a pending tool use that the age decides: no tool use and
\* no stop reason, or tool uses all completed and the stop reason tool_use.
DecidedByAge(turn) ==
    \/ ~HasToolUse(turn.content) /\ turn.stop_reason = "None"
    \/ HasToolUse(turn.content) /\ turn.stop_reason = "tool_use"

\* C12 as amended: a last assistant turn without a pending tool use is decided
\* by its age only when it has no tool use and no stop reason or has completed
\* tool uses and the stop reason tool_use; every other such turn is
\* WaitingForInput at every age.
C12_RecencyOnlyWhileGenerating ==
    (/\ inferred # NoResult
     /\ EndsWithAssistant(window)
     /\ ~HasPending(LastTurn(window).content))
    => inferred.status =
          IF DecidedByAge(LastTurn(window))
          THEN RecencyOnly(LastTurn(window), ASSISTANT_RECENT_SECS)
          ELSE "WaitingForInput"

C12_Witness ==
    /\ inferred # NoResult
    /\ EndsWithAssistant(window)
    /\ HasToolUse(LastTurn(window).content)
    /\ ~HasPending(LastTurn(window).content)
    /\ LastTurn(window).stop_reason = "None"
    /\ Recent(LastTurn(window), ASSISTANT_RECENT_SECS)
    /\ inferred.status = "WaitingForInput"

\* C13: a last assistant turn with tool uses that all have their outcome in
\* the turn and with stop reason end_turn gives WaitingForInput, also when the
\* turn is of this very moment.
C13_CompletedEndTurnWaits ==
    (/\ inferred # NoResult
     /\ EndsWithAssistant(window)
     /\ HasToolUse(LastTurn(window).content)
     /\ ~HasPending(LastTurn(window).content)
     /\ LastTurn(window).stop_reason = "end_turn")
    => inferred.status = "WaitingForInput"

C13_Witness ==
    /\ inferred # NoResult
    /\ EndsWithAssistant(window)
    /\ \E i, j \in 1..Len(LastTurn(window).content) :
          /\ i # j
          /\ LastTurn(window).content[i].type = "tool_use"
          /\ LastTurn(window).content[j].type = "tool_use"
    /\ ~HasPending(LastTurn(window).content)
    /\ LastTurn(window).stop_reason = "end_turn"
    /\ LastTurn(window).timestamp = At(0)
    /\ inferred.status = "WaitingForInput"

\* C14: when the last user or assistant turn of the window is a user turn, a
\* prompt or a tool result, the status is Working if the turn is younger than
\* 30 seconds and WaitingForInput otherwise, whatever informational entries
\* follow it.
C14_UserTurnByRecency ==
    (/\ inferred # NoResult
     /\ EndsWithUser(window))
    => inferred.status = RecencyOnly(LastTurn(window), USER_RECENT_SECS)

C14_Witness ==
    /\ inferred # NoResult
    /\ EndsWithUser(window)
    /\ LastTurn(window).is_tool_result
    /\ LastTurn(window).timestamp = At(USER_RECENT_SECS)
    /\ \E j \in Trailing(window) : window[j].type = "unknown"
    /\ inferred.status = "WaitingForInput"

\* The last assistant turn of the window, whatever follows it.
LastAssistant(w) ==
    w[CHOOSE k \in 1..Len(w) :
        /\ w[k].type = "assistant"
        /\ \A j \in (k + 1)..Len(w) : w[j].type # "assistant"]

HasAssistant(w) == \E k \in 1..Len(w) : w[k].type = "assistant"

\* An outcome for the id is carried by another entry of the window than the
\* k-th.
OutcomeElsewhere(w, k, id) ==
    \E j \in 1..Len(w) :
        /\ j # k
        /\ w[j].type = "assistant"
        /\ \E b \in 1..Len(w[j].content) :
              w[j].content[b].type = "tool_result" /\ w[j].content[b].id = id

\* C31: an invocation of the last assistant turn counts as completed only by
\* an outcome of its id in that turn. When the turn is the last user or
\* assistant entry and has an invocation without such an outcome, the status
\* is the one of a pending tool (NeedsPermission, or Working when every such
\* invocation is approved), whatever outcomes other entries or other ids
\* carry; and a user tool-result record after the turn leaves its unapproved
\* invocation the pending tool.
C31_OutcomeCompletesByIdInTurn ==
    (inferred # NoResult)
    => /\ (EndsWithAssistant(window) /\ HasPending(LastTurn(window).content))
             => inferred.status =
                   IF \A i \in 1..Len(LastTurn(window).content) :
                         Pending(LastTurn(window).content, i)
                             => Approved(LastTurn(window).content[i])
                   THEN "Working" ELSE "NeedsPermission"
       /\ (/\ HasAssistant(window)
            /\ \E i \in 1..Len(LastAssistant(window).content) :
                  /\ Pending(LastAssistant(window).content, i)
                  /\ ~Approved(LastAssistant(window).content[i]))
             => inferred.pending_tool_name # NoTool

\* The last turn invokes a tool whose id has an outcome in an earlier turn
\* only, and carries an outcome for an id it does not invoke.
C31_Witness ==
    /\ inferred # NoResult
    /\ EndsWithAssistant(window)
    /\ \E k \in 1..Len(window) :
          /\ window[k] = LastTurn(window)
          /\ \E i, r \in 1..Len(window[k].content) :
                /\ Pending(window[k].content, i)
                /\ ~Approved(window[k].content[i])
                /\ OutcomeElsewhere(window, k, window[k].content[i].id)
                /\ window[k].content[r].type = "tool_result"
    /\ inferred.status = "NeedsPermission"

\* The tool invocations of a content that have no outcome in it and are not
\* approved by the policy.
Needing(content) ==
    {i \in 1..Len(content) : Pending(content, i) /\ ~Approved(content[i])}

\* C35: the pending tool name is the name of the first tool invocation, in
\* block order, of the last assistant turn of the window that has no outcome
\* in that turn and is not approved; there is none when the window has no
\* assistant turn, when every invocation of the turn has its outcome, or when
\* every pending one is approved.
C35_FirstPendingUnapprovedTool ==
    inferred # NoResult
    => IF ~HasAssistant(window) THEN inferred.pending_tool_name = NoTool
       ELSE LET content == LastAssistant(window).content
            IN IF Needing(content) = {} THEN inferred.pending_tool_name = NoTool
               ELSE \E i \in Needing(content) :
                       /\ \A j \in Needing(content) : i <= j
                       /\ inferred.pending_tool_name = content[i].name

\* A turn of three pending invocations under a policy that approves neither
\* the shell command nor the Write: the read is hard-coded as safe, and of the
\* two others the shell command, which comes first, is named.
C35_Witness ==
    /\ inferred # NoResult
    /\ HasAssistant(window)
    /\ LET content == LastAssistant(window).content
       IN /\ Len(content) = 3
          /\ content[1].type = "tool_use" /\ content[1].name = "Read"
          /\ content[2].type = "tool_use" /\ content[2].name = "Bash"
          /\ content[3].type = "tool_use" /\ content[3].name = "Write"
          /\ Needing(content) = {2, 3}
    /\ inferred.pending_tool_name = "Bash"

\* C39: the status inferred for a window with a user or assistant entry is the
\* status inferred for its last such entry alone: the turns before it and the
\* informational entries before and after it change nothing.
C39_OnlyLastMeaningfulEntry ==
    (inferred # NoResult /\ (EndsWithAssistant(window) \/ EndsWithUser(window)))
    => inferred.status = determine_status(<<LastTurn(window)>>)

\* An old prompt after a turn and its recent tool-result record, followed by
\* a summary and a progress entry: the session waits for input, while the
\* two entries before the prompt alone make it Working.
C39_Witness ==
    /\ inferred # NoResult
    /\ Len(window) = 5
    /\ window[3].type = "user"
    /\ window[4].type = "summary"
    /\ window[5].type = "unknown"
    /\ inferred.status = "WaitingForInput"
    /\ determine_status(SubSeq(window, 1, 2)) = "Working"

\* ---- the permission check
\* C20: Read, Glob, Grep, WebFetch, WebSearch and the task queries are
\* approved for every tool input under every policy, the empty one included.
ReadOnlyTools ==
    {"Read", "Glob", "Grep", "WebFetch", "WebSearch", "Task", "TaskList", "TaskGet"}

C20_ReadOnlyToolsAlwaysApproved ==
    (approved.done /\ tool_use.name \in ReadOnlyTools) => approved.value

C20_Witness ==
    /\ approved.done
    /\ tool_use.name = "WebFetch"
    /\ tool_use.command = CmdRm
    /\ PERMISSION_CHECKER = DefaultChecker
    /\ approved.value

\* ---- the enrichment
\* C15: a session returned for a log whose inference is WaitingForInput has
\* status Working when the log was modified less than 8 seconds ago and
\* WaitingForInput when it was not, or when its modification time cannot be
\* told.
C15_RecencyOverride ==
    \A i \in 1..Len(enriched.sessions) :
        (/\ file_view.entries # <<>>
         /\ determine_status(file_view.entries) = "WaitingForInput")
        => enriched.sessions[i].status =
              IF file_view.mtime.valid /\ file_view.mtime.age < 8
              THEN "Working" ELSE "WaitingForInput"

C15_Witness ==
    /\ enriched.done
    /\ Len(enriched.sessions) = 1
    /\ determine_status(file_view.entries) = "WaitingForInput"
    /\ file_view.mtime = At(7)
    /\ enriched.sessions[1].status = "Working"

\* C16: no session of a snapshot, as kept, emitted or broadcast by the loop,
\* has a message count of zero, and a detected session the cycle left out is
\* in neither memory of the loop.
C16_NoEmptySession ==
    /\ \A s \in Range(sessions) \cup Range(emitted) \cup Range(broadcast) :
          s.message_count >= 1
    /\ \A id \in cycle.dropped :
          /\ id \notin SessionIdsOf(sessions)
          /\ id \notin DOMAIN previous_status
          /\ id \notin DOMAIN last_notification_time

C16_Witness ==
    /\ cycle.outcome = "ok"
    /\ \E id \in cycle.dropped : id \in DOMAIN since_fired

\* C36: a session shown as NeedsPermission carries a pending tool name, and
\* the name is that of a tool invocation of the last turn of its log that has
\* no outcome in the turn and is not approved by the policy.
C36_NeedsPermissionNamesItsTool ==
    enriched.done
    => \A s \in Range(enriched.sessions) :
          s.status = "NeedsPermission"
          => /\ s.pending_tool_name # NoTool
             /\ EndsWithAssistant(file_view.entries)
             /\ \E i \in Needing(LastTurn(file_view.entries).content) :
                   LastTurn(file_view.entries).content[i].name = s.pending_tool_name

\* The log holds an earlier turn whose read is completed and ends with a turn
\* of a read, a Write and a shell command, all pending: the session needs
\* permission for the Write.
C36_Witness ==
    /\ enriched.done
    /\ \E s \in Range(enriched.sessions) :
          /\ s.status = "NeedsPermission"
          /\ s.pending_tool_name = "Write"
    /\ Len(file_view.entries) = 4
    /\ Needing(file_view.entries[3].content) = {2, 3}
    /\ Needing(file_view.entries[1].content) = {}

\* The status before the recency of the log is looked at.
RawStatus(view) ==
    IF view.entries = <<>> THEN "Connecting" ELSE determine_status(view.entries)

\* C40: a session whose status before the recency override is not
\* WaitingForInput is shown with that status, however recently its log was
\* modified: Connecting and NeedsPermission are never turned into Working.
C40_OverrideTouchesWaitingOnly ==
    enriched.done
    => \A s \in Range(enriched.sessions) :
          RawStatus(file_view) # "WaitingForInput" => s.status = RawStatus(file_view)

\* A log of informational entries only, written this moment, is Connecting.
C40_Witness ==
    /\ enriched.done
    /\ file_view.entries # <<>>
    /\ \A i \in 1..Len(file_view.entries) :
          file_view.entries[i].type \notin {"user", "assistant"}
    /\ file_view.mtime = At(0)
    /\ \E s \in Range(enriched.sessions) : s.status = "Connecting"

\* ---- the loop over logs that fail to open
\* A cycle over the two sessions has just ended.
Degraded == cycle.outcome = "ok" /\ disk # NoDisk

InSnapshot(id) == \E s \in Range(sessions) : s.id = id

\* The session alone in a snapshot of its own, from what lies on disk for it.
Alone(id) ==
    detect_and_enrich_sessions_with_detector(<<BothDetected[id]>>,
                                             [i \in {id} |-> ViewOf(disk[id])])

\* The number of messages the index gives, or else a scan of the log.
CountOnDisk(id) ==
    IF disk[id].session_entry # <<>> THEN disk[id].session_entry[1]
    ELSE IF disk[id].log.opens THEN disk[id].log.messages
    ELSE 0

\* C34 as stated: in a cycle that finds the log of a session unreadable, the
\* session is in the snapshot with the status Connecting.
C34_Original ==
    Degraded
    => \A id \in DiskIds :
          ~disk[id].log.opens
          => \E s \in Range(sessions) : s.id = id /\ s.status = "Connecting"

\* C34: a cycle that finds the log or the index entry of a session missing
\* still ends and publishes its snapshot; every session is in the snapshot or
\* left out of it exactly as a cycle over that session alone would have it,
\* with the same status and message count; a session whose log does not open
\* is in the snapshot with the status Connecting when the index gives it a
\* message count other than 0 and is left out when the index has no entry for
\* it; a session without an index entry carries the count of the scan of its log.
C34_FailureDegradesOneSession ==
    Degraded
    => /\ cycle.emitted /\ cycle.sent
       /\ emitted = sessions /\ broadcast = sessions
       /\ \A id \in DiskIds :
             /\ InSnapshot(id) <=> Alone(id) # <<>>
             /\ InSnapshot(id) <=> CountOnDisk(id) # 0
             /\ \A s \in Range(sessions) :
                   s.id = id
                   => /\ s = Alone(id)[1]
                      /\ s.message_count = CountOnDisk(id)
                      /\ ~disk[id].log.opens => s.status = "Connecting"

\* The log of session 1 does not open and the index has no entry for it: the
\* session is left out, and session 2 is published as Working with the count
\* of the scan of its log.
C34_Witness ==
    /\ Degraded
    /\ ~disk[1].log.opens
    /\ disk[1].session_entry = <<>>
    /\ disk[2].session_entry = <<>>
    /\ ~InSnapshot(1)
    /\ emitted # <<>>
    /\ \A s \in Range(emitted) : s.id = 2 /\ s.status = "Working" /\ s.message_count = 2

\* ---- the detector
ProcOf(d) == CHOOSE p \in Range(claude_processes) : p.pid = d.pid

FileOf(d) ==
    CHOOSE f \in Range(log_files) :
        f.project_dir = d.project_path /\ f.session_id = d.session_id

\* The log lies in a directory that matches the process.
InDirOf(p, f) ==
    p.has_cwd /\ path_matches(p.cwd, f.project_dir, f.project_path, f.has_reliable_path)

BoundPids == {found.sessions[i].pid : i \in 1..Len(found.sessions)}

\* C17: in what one detection returns no two entries have the same session id
\* and no two the same process id, and the snapshot made of it has no two
\* sessions of the same id.
C17_BindingInjective ==
    /\ \A i, j \in 1..Len(found.sessions) :
          (i # j) => /\ found.sessions[i].session_id # found.sessions[j].session_id
                     /\ found.sessions[i].pid # found.sessions[j].pid
    /\ \E snapshot \in {detect_and_enrich_sessions_with_detector(
                            found.sessions,
                            [id \in {"s1", "s2"} |-> FileView(<<>>, 1, BadTimestamp)])} :
          \A i, j \in 1..Len(snapshot) : (i # j) => snapshot[i].id # snapshot[j].id

C17_Witness ==
    /\ found.done
    /\ Len(found.sessions) = 1
    /\ \E i, j \in 1..Len(claude_processes) :
          /\ i # j
          /\ \E f, g \in Range(log_files) :
                /\ f.session_id = g.session_id
                /\ f.project_dir # g.project_dir
                /\ InDirOf(claude_processes[i], f)
                /\ InDirOf(claude_processes[j], g)
                /\ f.modified >= claude_processes[i].start_time
                /\ g.modified >= claude_processes[j].start_time

ServedBefore(i) ==
    {j \in 1..Len(claude_processes) :
        \/ claude_processes[j].start_time > claude_processes[i].start_time
        \/ claude_processes[j].start_time = claude_processes[i].start_time /\ j < i}

ClaimedBefore(i) ==
    {found.sessions[k].session_id :
        k \in {n \in 1..Len(found.sessions) :
                  \E j \in ServedBefore(i) : claude_processes[j].pid = found.sessions[n].pid}}

Eligible(i) ==
    {f \in Range(log_files) :
        /\ f.modified + 5 >= claude_processes[i].start_time
        /\ f.session_id \notin ClaimedBefore(i)
        /\ InDirOf(claude_processes[i], f)}

\* C19: every process with a working directory is bound to a most recently
\* modified one of the logs that match its directory, pass its start-time
\* test and are not claimed by a process served before it, the processes
\* being served latest start first; it is bound to nothing when there is none.
C19_NewestProcessTakesNewestLog ==
    found.done =>
        \A i \in 1..Len(claude_processes) :
            claude_processes[i].has_cwd =>
                IF Eligible(i) = {}
                THEN claude_processes[i].pid \notin BoundPids
                ELSE \E k \in 1..Len(found.sessions) :
                        /\ found.sessions[k].pid = claude_processes[i].pid
                        /\ FileOf(found.sessions[k]) \in Eligible(i)
                        /\ \A f \in Eligible(i) :
                              f.modified <= FileOf(found.sessions[k]).modified

C19_Witness ==
    /\ found.done
    /\ Len(claude_processes) = 2
    /\ Len(log_files) = 2
    /\ claude_processes[1].cwd = claude_processes[2].cwd
    /\ claude_processes[1].start_time < claude_processes[2].start_time
    /\ log_files[1].modified < log_files[2].modified
    /\ log_files[1].modified + 5 >= claude_processes[2].start_time
    /\ Len(found.sessions) = 2
    /\ found.sessions[1].pid = claude_processes[2].pid
    /\ FileOf(found.sessions[1]) = log_files[2]
    /\ found.sessions[2].pid = claude_processes[1].pid
    /\ FileOf(found.sessions[2]) = log_files[1]

\* C30: a process without a working directory is bound to nothing; so is a
\* process with none of the logs that match its directory, pass its
\* start-time test and are not claimed by a process served before it; every
\* entry returned belongs to a listed process that has a working directory;
\* and with no process nothing is returned, whatever the logs.
C30_NoSessionWithoutProcess ==
    found.done =>
        /\ \A i \in 1..Len(claude_processes) :
              (~claude_processes[i].has_cwd \/ Eligible(i) = {})
                  => claude_processes[i].pid \notin BoundPids
        /\ \A k \in 1..Len(found.sessions) :
              \E p \in Range(claude_processes) :
                 /\ p.pid = found.sessions[k].pid
                 /\ p.has_cwd
                 /\ p.cwd = found.sessions[k].cwd
        /\ (claude_processes = <<>>) => (found.sessions = <<>>)

\* Nothing is returned for a process without a working directory and one
\* whose only log is older than its start allows.
C30_Witness ==
    /\ found.done
    /\ found.sessions = <<>>
    /\ log_files # <<>>
    /\ \E i, j \in 1..Len(claude_processes) :
          /\ ~claude_processes[i].has_cwd
          /\ claude_processes[j].has_cwd
          /\ \E f \in Range(log_files) : InDirOf(claude_processes[j], f)

\* ---- the path matching
\* The path the index gives for a session: that of the session's own entry
\* when it has one, else that of the first entry.
AuthoritativePaths ==
    LET x == candidate.index
        own == {i \in 1..Len(x.entries) :
                   /\ x.entries[i].session_id = candidate.session_id
                   /\ x.entries[i].project_path # <<>>}
    IN IF ~(x.decodes /\ x.has_entries) \/ x.entries = <<>> THEN {}
       ELSE IF own # {}
       THEN {x.entries[i].project_path[1] : i \in {j \in own : \A k \in own : j <= k}}
       ELSE {x.entries[1].project_path[i] : i \in 1..Len(x.entries[1].project_path)}

\* cwd is the path itself or lies in the directory tree below it.
AtOrUnder(cwd, path) ==
    \/ cwd = path
    \/ /\ Len(path) < Len(cwd)
       /\ SubSeq(cwd, 1, Len(path)) = path
       /\ path[Len(path)] = "/" \/ cwd[Len(path) + 1] = "/"

\* The working directory with '/', '\' and '_' replaced by '-' and ':' removed.
Fingerprint(cwd) ==
    LET Kept(c) == c # ":"
        kept == SelectSeq(cwd, Kept)
    IN [i \in 1..Len(kept) |-> IF kept[i] \in {"/", "\\", "_"} THEN "-" ELSE kept[i]]

\* C33: a log's project directory matches a process exactly when the index of
\* the directory gives a path and the working directory is that path or lies
\* under it, or the name of the directory equals the working directory with
\* its separators and underscores replaced by dashes and its colons removed.
C33_MatchByIndexOrFingerprint ==
    matched.done
    => (matched.value <=>
           \/ \E path \in AuthoritativePaths : AtOrUnder(candidate.proc_cwd, path)
           \/ candidate.project_dir = Fingerprint(candidate.proc_cwd))

\* A process below the path of the index matches a directory of another name,
\* through the first entry of an index that does not list the session.
C33_Witness ==
    /\ matched.done
    /\ matched.value
    /\ candidate.proc_cwd = CwdAB
    /\ candidate.project_dir = DirX
    /\ candidate.session_id = "s2"
    /\ AuthoritativePaths = {CwdA}
    /\ \A i \in 1..Len(candidate.index.entries) :
           candidate.index.entries[i].session_id # "s2"

\* ---- the permission policy
\* The strings of the allow list the settings source carries.
AllowStrings ==
    IF settings_file.state = "ok" /\ settings_file.has_permissions
       /\ settings_file.has_allow
    THEN Range(settings_file.allow) ELSE {}

\* The command without the blanks around it: the part between a run of blanks
\* at the start and a run of blanks at the end that itself neither starts nor
\* ends with a blank.
CommandProper(c) ==
    LET cuts == {ij \in (1..(Len(c) + 1)) \X (0..Len(c)) :
                    /\ ij[1] <= ij[2] + 1
                    /\ \A k \in 1..(ij[1] - 1) : c[k] = " "
                    /\ \A k \in (ij[2] + 1)..Len(c) : c[k] = " "
                    /\ (ij[1] <= ij[2]) => (c[ij[1]] # " " /\ c[ij[2]] # " ")}
        cut == CHOOSE ij \in cuts : TRUE
    IN SubSeq(c, cut[1], cut[2])

\* An allow string that matches the command t: "Bash(q:*)" for a q that t
\* starts with, or "Bash(t)" where t does not end with ":*".
AllowStringMatches(str, t) ==
    \/ \E n \in 0..Len(t) :
          str = <<"B", "a", "s", "h", "(">> \o SubSeq(t, 1, n) \o <<":", "*", ")">>
    \/ /\ str = <<"B", "a", "s", "h", "(">> \o t \o <<")">>
       /\ ~(Len(t) >= 2 /\ t[Len(t) - 1] = ":" /\ t[Len(t)] = "*")

\* C21: a Bash invocation is auto-approved exactly when some string of the
\* allow list is a wildcard pattern whose prefix the trimmed command starts
\* with or an exact pattern equal to the trimmed command.
C21_BashApprovedIffPatternMatches ==
    (approved.done /\ tool_use.name = "Bash") =>
        (approved.value <=>
            \E str \in AllowStrings :
                AllowStringMatches(str, CommandProper(tool_use.command)))

C21_Witness ==
    /\ approved.done
    /\ tool_use.name = "Bash"
    /\ tool_use.command = CmdLs \o <<" ", "x">>
    /\ <<"B", "a", "s", "h", "(", "l", "s", ")">> \in AllowStrings
    /\ ~approved.value

\* The names is_auto_approved answers for without consulting the policy.
HardCodedSafeTools ==
    ReadOnlyTools \cup {"TaskCreate", "TaskUpdate", "AskUserQuestion"}

\* C22: when there is no home directory or the settings file is missing,
\* unreadable or unparseable, the loaded policy has no pattern and a tool use
\* is auto-approved exactly when its name is one of the hard-coded ones.
C22_NoSettingsEmptyPolicy ==
    (settings_file.state \in {"no_home", "missing", "unreadable", "unparseable"}) =>
        /\ PERMISSION_CHECKER = <<>>
        /\ approved.done =>
              (approved.value <=> tool_use.name \in HardCodedSafeTools)

C22_Witness ==
    /\ approved.done
    /\ settings_file.state = "unparseable"
    /\ tool_use.name = "Bash"
    /\ tool_use.command = CmdLs
    /\ ~approved.value

\* The allow list carries the very name of the tool.
Listed(name) == name \in DOMAIN Spelling /\ Spelling[name] \in AllowStrings

\* C32: a tool that is neither hard-coded as safe nor the shell is approved
\* exactly when it is Write, Edit, NotebookEdit or an mcp__ tool and the allow
\* list carries its very name; every other tool is refused under every policy.
C32_OnlyByExplicitPattern ==
    (approved.done /\ tool_use.name \notin HardCodedSafeTools /\ tool_use.name # "Bash")
    => (approved.value <=>
           /\ tool_use.name \in {"Write", "Edit", "NotebookEdit"} \cup McpToolNames
           /\ Listed(tool_use.name))

\* Edit is refused under a policy that lists Write.
C32_Witness ==
    /\ approved.done
    /\ tool_use.name = "Edit"
    /\ Listed("Write")
    /\ ~Listed("Edit")
    /\ ~approved.value

\* ---- the conversation lookup
\* C23: a lookup of a session id with "/" or ".." in it fails with "Invalid
\* session ID format", opens no file and does not touch the filesystem.
C23_TraversalRejected ==
    (/\ conversation.done
     /\ \/ \E i \in 1..Len(requested_id) : requested_id[i] = "/"
        \/ \E i \in 1..(Len(requested_id) - 1) :
              requested_id[i] = "." /\ requested_id[i + 1] = ".")
    => /\ ~conversation.ok
       /\ conversation.error = "Invalid session ID format"
       /\ conversation.opened = {}
       /\ ~conversation.touched

\* ---- the parser
\* The lines of the log that are not blank.
WrittenLines ==
    LET Written(line) == ~line.text.blank IN SelectSeq(log_file.lines, Written)

\* A text the parser has an entry for: JSON with a tag, and with the fields
\* of the variant when the tag names one.
WellFormed(text) ==
    /\ text.json
    /\ text.tag # "absent"
    /\ (text.tag \in {"user", "assistant", "file-history-snapshot", "summary"})
          => text.fields

\* C24: the full parse of a log returns one entry for every line that is not
\* blank: the entry of the line when the line is well-formed, an informational
\* entry when it is malformed.
C24_OneEntryPerLine ==
    (parsed.done /\ parsed.all.ok) =>
        /\ Len(parsed.all.entries) = Len(WrittenLines)
        /\ \A i \in 1..Len(WrittenLines) :
              IF WellFormed(WrittenLines[i].text)
              THEN parsed.all.entries[i] \in
                      {WrittenLines[i].text.entry, OtherEntry("unknown")}
              ELSE parsed.all.entries[i].type \in InformationalTypes

\* The last n elements of a sequence.
LastElements(s, n) ==
    SubSeq(s, (IF Len(s) > n THEN Len(s) - n ELSE 0) + 1, Len(s))

\* C25: the tail parse of the last n lines of a log returns the last n
\* entries of the full parse of the same log.
C25_TailEqualsEndOfFull ==
    (parsed.done /\ parsed.all.ok) =>
        /\ parsed.tail.ok
        /\ parsed.tail.entries = LastElements(parsed.all.entries, tail_n)

\* ---- the channels
\* The first message each live receiver has not passed: of the receiver the
\* channel was created with (which never receives), and of the tasks.
LiveReceivers ==
    (IF channel.initial_rx THEN {1} ELSE {})
    \cup {subscribers[i].next :
            i \in {j \in 1..Len(subscribers) : subscribers[j].mode \in ReceiverModes}}

\* C26: whatever the receivers do, the loop's next send can be taken; no
\* receiver can still be given more than 16 messages; and every message a
\* receiver has lost is older than every message it can still be given.
C26_SendNeverBlocks ==
    /\ (channel.kind # "none" /\ channel.published < MaxSends) => ENABLED Publish
    /\ \A next \in LiveReceivers :
          /\ Cardinality({msg \in next..channel.published :
                             msg \in Range(channel.buffer)}) <= 16
          /\ \A lost \in {msg \in next..channel.published :
                             msg \notin Range(channel.buffer)} :
                \A kept \in {msg \in next..channel.published :
                                 msg \in Range(channel.buffer)} : lost < kept

C26_Witness ==
    /\ channel.published = 17
    /\ Len(channel.buffer) = 16
    /\ \E i \in 1..Len(subscribers) :
          /\ subscribers[i].mode = "sending"
          /\ subscribers[i].next = 1

\* ---- the loop and the on-demand detections beside it
\* C27: a step that is not a step of the polling thread (every step of the
\* thread moves its position) leaves the previous-status map and the
\* last-notified map as they are and fires no notification.
C27_OnlyTheLoopChangesMemory ==
    [][pc' = pc =>
          /\ previous_status' = previous_status
          /\ last_notification_time' = last_notification_time
          /\ fired' = fired]_vars

\* A command has emitted a list in which a session the loop remembers as
\* Working needs permission.
C27_Witness ==
    /\ on_demand \in EmittingCommands
    /\ emitted # broadcast
    /\ fired = <<>>
    /\ \E i \in 1..Len(emitted) :
          /\ emitted[i].id \in DOMAIN previous_status
          /\ previous_status[emitted[i].id] = "Working"
          /\ emitted[i].status = "NeedsPermission"

\* C28: when a cycle after the first finds a session id of the list before
\* under another pid, the status remembered for the id is the one of the
\* list before, a notification-worthy change from it fires a notification
\* unless the id is on cooldown, and the time of the id's last notification
\* is kept unless a notification fires.
C28_MemoryFollowsSessionId ==
    [][\A i \in 1..Len(sessions) : \A j \in 1..Len(sessions') :
          (/\ pc = "loop" /\ pc' = "sleep"
           /\ ~is_first_cycle
           /\ sessions[i].id = sessions'[j].id
           /\ sessions[i].pid # sessions'[j].pid)
          => LET id == sessions[i].id
                 change == should_notify(sessions[i].status, sessions'[j].status)
                 held == on_cooldown(last_notification_time, id)
                 notes == {k \in 1..Len(fired') : fired'[k].session_id = id}
             IN /\ id \in DOMAIN previous_status
                /\ previous_status[id] = sessions[i].status
                /\ (change /\ ~held)
                      => /\ \E k \in notes : /\ fired'[k].pid = sessions'[j].pid
                                             /\ fired'[k].prev_status = sessions[i].status
                                             /\ fired'[k].status = sessions'[j].status
                         /\ id \in DOMAIN last_notification_time'
                         /\ last_notification_time'[id] = 0
                /\ (change /\ held)
                      => /\ notes = {}
                         /\ id \in cycle'.suppressed
                /\ ~(change /\ ~held)
                      => /\ notes = {}
                         /\ id \in DOMAIN last_notification_time
                               => /\ id \in DOMAIN last_notification_time'
                                  /\ last_notification_time'[id] = last_notification_time[id]
         ]_vars

\* A session that was Working under one pid needs permission under another,
\* and the notification has fired.
C28_Witness ==
    /\ cycle.outcome = "ok"
    /\ \E old \in Range(polled.previous) : \E k \in 1..Len(fired) :
          /\ fired[k].session_id = old.id
          /\ fired[k].pid # old.pid
          /\ old.status = "Working"
          /\ fired[k].status = "NeedsPermission"

\* C29: after a successful cycle the status sent for each session is the one
\* the enrichment computes from what the cycle was shown of the session (its
\* tail window with the ages of its entries, and its modification time)
\* under the policy, whatever the two maps held.
C29_StatusFromInputsOnly ==
    (cycle.outcome = "ok" /\ cycle.sent)
    => /\ broadcast = PublishedPayload(
                         detect_and_enrich_sessions_with_detector(
                             polled.detected_sessions, polled.files))
       /\ \A i \in 1..Len(broadcast) :
             /\ broadcast[i].id \in DOMAIN polled.files
             /\ broadcast[i].status = EnrichStatus(polled.files[broadcast[i].id])

\* The cooldown has held a notification back, and the status sent is the new
\* one all the same.
C29_Witness ==
    /\ cycle.outcome = "ok"
    /\ cycle.sent
    /\ cycle.suppressed # {}
    /\ \E i \in 1..Len(broadcast) :
          /\ broadcast[i].id \in cycle.suppressed
          /\ broadcast[i].status \in {"NeedsPermission", "WaitingForInput"}
\* C37: in a successful cycle after the first, a session whose id the
\* previous-status memory does not hold when the cycle starts fires no
\* notification, whatever its status; the memory holds its status after the
\* cycle, and no debounce timestamp is remembered for it before or after.
C37_UnknownIdOnlySeeded ==
    [][(pc = "loop" /\ ~is_first_cycle /\ cycle'.outcome = "ok")
       => \A i \in 1..Len(sessions') :
             sessions'[i].id \notin DOMAIN previous_status
             => /\ \A k \in 1..Len(fired') : fired'[k].session_id # sessions'[i].id
                /\ sessions'[i].id \in DOMAIN previous_status'
                /\ previous_status'[sessions'[i].id] = sessions'[i].status
                /\ sessions'[i].id \notin DOMAIN last_notification_time
                /\ sessions'[i].id \notin DOMAIN last_notification_time']_vars

\* A session that was notified about less than the cooldown ago and then left
\* the snapshot is back, needing permission: nothing is fired.
C37_Witness ==
    /\ cycle.outcome = "ok"
    /\ ~cycle.first
    /\ polled.previous = <<>>
    /\ \E s \in Range(sessions) : s.id = 1 /\ s.status = "NeedsPermission"
    /\ 1 \in DOMAIN since_fired
    /\ since_fired[1].elapsed < notification_cooldown
    /\ fired = <<>>
    /\ previous_status = StatusesOf(sessions)
    /\ last_notification_time = EmptyMap
\* C38 as stated: once the cooldown has held a notification for a session
\* back, the next notification for the session is fired no less than the
\* cooldown after the last one fired for it.
C38_Original ==
    \A i \in 1..Len(fired) :
        fired[i].session_id \in held_back.then_fired => ~fired[i].too_soon

\* C38 as amended: a cycle that holds a notification back still writes the
\* session's new status, which is not Working, into the memory, fires nothing
\* for the session and leaves its timestamp as it was; every notification is
\* fired out of a remembered Working, so none follows until a later snapshot
\* shows the session Working; and the notification that then follows comes no
\* less than the cooldown after the last fired one unless the session was
\* missing from a snapshot in between.
C38_HeldBackIsNeverDelivered ==
    /\ \A id \in cycle.suppressed :
          /\ id \in DOMAIN previous_status
          /\ previous_status[id] \in NotifyStatuses
          /\ previous_status[id] = StatusesOf(sessions)[id]
          /\ \A i \in 1..Len(fired) : fired[i].session_id # id
          /\ last_notification_time[id] = since_fired[id].elapsed
          /\ id \in held_back.held
    /\ \A i \in 1..Len(fired) :
          /\ fired[i].prev_status = "Working"
          /\ fired[i].session_id \notin held_back.held
          /\ (fired[i].session_id \in held_back.then_fired /\ fired[i].too_soon)
             => ~fired[i].unbroken

\* A notification is fired for a session less than the cooldown after the
\* last one, after another one was held back and the session was missing from
\* a snapshot.
C38_Witness ==
    \E i \in 1..Len(fired) :
        /\ fired[i].session_id \in held_back.then_fired
        /\ fired[i].too_soon
        /\ ~fired[i].unbroken
        /\ fired[i].prev_status = "Working"

====
